---- MODULE Spec2Model ----
(***************************************************************************)
(* Multi-candidate label extraction, scoring and merging engine of the     *)
(* alcohol-label verifier (src/lib/extraction).                            *)
(*                                                                         *)
(* Texts are sequences of one-character strings.  Similarity ratios and    *)
(* parsed numbers are exact rationals <<num, den>> compared by cross       *)
(* multiplication.  A null field is the record Null.                       *)
(***************************************************************************)
EXTENDS Integers, Sequences, FiniteSets, TLC

(***************************************************************************)
(* Values                                                                  *)
(***************************************************************************)
Null == [null |-> TRUE]

FIELD_KEYS ==
  << "brandName", "classType", "alcoholContent", "netContents",
     "governmentWarning", "bottlerProducer", "countryOfOrigin",
     "additivesDisclosed" >>

FieldKeySet == { FIELD_KEYS[i] : i \in 1..Len(FIELD_KEYS) }

ADDITIVE_KEYS ==
  << "fdcYellowNo5", "cochinealExtract", "carmine", "aspartame",
     "sulfitesGe10ppm" >>

AdditiveKeySet == { ADDITIVE_KEYS[i] : i \in 1..Len(ADDITIVE_KEYS) }

(***************************************************************************)
(* Characters and text normalisation (textSimilarity)                      *)
(***************************************************************************)
UpperChars ==
  << "A","B","C","D","E","F","G","H","I","J","K","L","M",
     "N","O","P","Q","R","S","T","U","V","W","X","Y","Z" >>

LowerChars ==
  << "a","b","c","d","e","f","g","h","i","j","k","l","m",
     "n","o","p","q","r","s","t","u","v","w","x","y","z" >>

DigitChars == << "0","1","2","3","4","5","6","7","8","9" >>

SpaceChars == { " ", "\t", "\n" }

SeqRange(s) == { s[i] : i \in 1..Len(s) }

UpperSet == SeqRange(UpperChars)
LowerSet == SeqRange(LowerChars)
DigitSet == SeqRange(DigitChars)

IsDigit(c) == c \in DigitSet

DigitValueOf == [c \in DigitSet |-> (CHOOSE i \in 1..10 : DigitChars[i] = c) - 1]
DigitValue(c) == DigitValueOf[c]

\* String.prototype.toLowerCase on one character
LowerOf == [c \in UpperSet |-> LowerChars[CHOOSE i \in 1..26 : UpperChars[i] = c]]
ToLowerChar(c) == IF c \in UpperSet THEN LowerOf[c] ELSE c

toLowerCase(text) == [i \in 1..Len(text) |-> ToLowerChar(text[i])]

\* the regex class \w
WordSet == UpperSet \cup LowerSet \cup DigitSet \cup {"_"}
IsWordChar(c) == c \in WordSet

\* .replace(/[^\w\s]/g, "")
StripPunctuation(text) ==
  SelectSeq(text, LAMBDA c : IsWordChar(c) \/ c \in SpaceChars)

\* .replace(/\s+/g, " "): of every run of white space the last character
\* stays, as a blank
CollapseSpaces(text) ==
  LET kept == SelectSeq([i \in 1..Len(text) |-> i],
                LAMBDA i : ~( /\ text[i] \in SpaceChars
                              /\ i < Len(text)
                              /\ text[i + 1] \in SpaceChars ))
  IN  [ k \in 1..Len(kept) |->
          IF text[kept[k]] \in SpaceChars THEN " " ELSE text[kept[k]] ]

\* .trim()
RECURSIVE TrimLeft(_)
TrimLeft(text) ==
  IF text # << >> /\ Head(text) \in SpaceChars
    THEN TrimLeft(Tail(text)) ELSE text

RECURSIVE TrimRight(_)
TrimRight(text) ==
  IF text # << >> /\ text[Len(text)] \in SpaceChars
    THEN TrimRight(SubSeq(text, 1, Len(text) - 1)) ELSE text

trim(text) == TrimRight(TrimLeft(text))

normalizeForSimilarity(text) ==
  trim(CollapseSpaces(StripPunctuation(toLowerCase(text))))

Min3(a, b, c) ==
  IF a <= b /\ a <= c THEN a ELSE IF b <= c THEN b ELSE c

\* row i of the matrix, built left to right from row i - 1; acc holds the
\* cells matrix[i][0..j-1] found so far
RECURSIVE LevenshteinRow(_, _, _, _, _)
LevenshteinRow(str1, str2, i, prev, acc) ==
  IF Len(acc) = Len(str2) + 1 THEN acc
  ELSE LET j == Len(acc)
           cost == IF str1[i] = str2[j] THEN 0 ELSE 1
       IN  LevenshteinRow(str1, str2, i, prev,
             Append(acc, Min3(prev[j + 1] + 1, acc[j] + 1, prev[j] + cost)))

RECURSIVE LevenshteinRows(_, _, _, _)
LevenshteinRows(str1, str2, i, prev) ==
  IF i > Len(str1) THEN prev
  ELSE LevenshteinRows(str1, str2, i + 1,
         LevenshteinRow(str1, str2, i, prev, << i >>))

levenshteinDistance(str1, str2) ==
  LevenshteinRows(str1, str2, 1, [j \in 1..(Len(str2) + 1) |-> j - 1])[Len(str2) + 1]

\* rationals
RatEq(a, b) == a[1] * b[2] = b[1] * a[2]
RatLess(a, b) == a[1] * b[2] < b[1] * a[2]

similarityRatio(str1, str2) ==
  LET distance == levenshteinDistance(str1, str2)
      maxLength == IF Len(str1) > Len(str2) THEN Len(str1) ELSE Len(str2)
  IN  IF maxLength = 0 THEN << 1, 1 >>
      ELSE << maxLength - distance, maxLength >>

\* String.prototype.includes
includes(text, keyword) ==
  \E i \in 0..(Len(text) - Len(keyword)) :
    SubSeq(text, i + 1, i + Len(keyword)) = keyword

(***************************************************************************)
(* Field-scope heuristics (heuristics.ts)                                  *)
(***************************************************************************)
BEER_CLASS_KEYWORDS ==
  { << "b","e","e","r" >>,
    << "a","l","e" >>,
    << "l","a","g","e","r" >>,
    << "p","o","r","t","e","r" >>,
    << "s","t","o","u","t" >>,
    << "m","a","l","t"," ","l","i","q","u","o","r" >>,
    << "c","e","r","e","a","l"," ","b","e","v","e","r","a","g","e" >>,
    << "n","e","a","r"," ","b","e","e","r" >>,
    << "w","h","e","a","t"," ","b","e","e","r" >>,
    << "r","y","e"," ","b","e","e","r" >>,
    << "i","c","e"," ","b","e","e","r" >>,
    << "b","a","r","l","e","y"," ","w","i","n","e" >>,
    << "h","a","l","f"," ","a","n","d"," ","h","a","l","f" >>,
    << "b","l","a","c","k"," ","a","n","d"," ","t","a","n" >> }

\* value?.text ?? "" : the text of a field, empty for null
getTextValue(value) == IF value = Null THEN << >> ELSE value.text

isBeerClassType(value) ==
  IF value = << >> THEN FALSE
  ELSE LET normalized == toLowerCase(value)
       IN  \E keyword \in BEER_CLASS_KEYWORDS : includes(normalized, keyword)

isWineClassType(value) ==
  IF value = << >> THEN FALSE
  ELSE includes(toLowerCase(value), << "w","i","n","e" >>)

\* value of a run of digits, and 10^(its length)
RECURSIVE DigitsValue(_)
DigitsValue(ds) ==
  IF ds = << >> THEN 0
  ELSE 10 * DigitsValue(SubSeq(ds, 1, Len(ds) - 1)) + DigitValue(ds[Len(ds)])

RECURSIVE Pow10(_)
Pow10(n) == IF n = 0 THEN 1 ELSE 10 * Pow10(n - 1)

\* length of the maximal run of digits of text starting at position i
RECURSIVE DigitRun(_, _)
DigitRun(text, i) ==
  IF i <= Len(text) /\ IsDigit(text[i]) THEN 1 + DigitRun(text, i + 1) ELSE 0

NoAbv == [ok |-> FALSE, num |-> 0, den |-> 1]

\* first match of /(\d+(\.\d+)?)/, parsed by Number.parseFloat
parseAbv(text) ==
  IF text = << >> THEN NoAbv
  ELSE IF ~ \E i \in 1..Len(text) : IsDigit(text[i]) THEN NoAbv
  ELSE
    LET start == CHOOSE i \in 1..Len(text) :
                   IsDigit(text[i]) /\ \A j \in 1..(i - 1) : ~IsDigit(text[j])
        intLen == DigitRun(text, start)
        dot == start + intLen
        fracLen == IF dot <= Len(text) /\ text[dot] = "."
                     THEN DigitRun(text, dot + 1) ELSE 0
        intPart == DigitsValue(SubSeq(text, start, dot - 1))
        fracPart == DigitsValue(SubSeq(text, dot + 1, dot + fracLen))
    IN  [ok |-> TRUE,
         num |-> intPart * Pow10(fracLen) + fracPart,
         den |-> Pow10(fracLen)]

\* shouldCheckAlcoholContent recognising beer by class/type text only
shouldCheckAlcoholContentClassOnly(expected) ==
  LET isBeer == isBeerClassType(getTextValue(expected.classType))
      isWine == expected.productType = "wine"
                  \/ isWineClassType(getTextValue(expected.classType))
      abv == parseAbv(getTextValue(expected.alcoholContent))
  IN  IF isBeer THEN FALSE
      ELSE IF isWine /\ abv.ok /\ abv.num < 7 * abv.den THEN FALSE
      ELSE getTextValue(expected.alcoholContent) # << >>

\* shouldCheckAlcoholContent taking a wine without a parsable number for a
\* wine under 7%
shouldCheckAlcoholContentNoNumberIsLow(expected) ==
  LET isBeer == expected.productType = "beer"
                  \/ isBeerClassType(getTextValue(expected.classType))
      isWine == expected.productType = "wine"
                  \/ isWineClassType(getTextValue(expected.classType))
      abv == parseAbv(getTextValue(expected.alcoholContent))
  IN  IF isBeer THEN FALSE
      ELSE IF isWine /\ (~abv.ok \/ abv.num < 7 * abv.den) THEN FALSE
      ELSE getTextValue(expected.alcoholContent) # << >>

shouldCheckAlcoholContent(expected) ==
  LET isBeer == expected.productType = "beer"
                  \/ isBeerClassType(getTextValue(expected.classType))
      isWine == expected.productType = "wine"
                  \/ isWineClassType(getTextValue(expected.classType))
      abv == parseAbv(getTextValue(expected.alcoholContent))
  IN  IF isBeer THEN FALSE
      ELSE IF isWine /\ abv.ok /\ abv.num < 7 * abv.den THEN FALSE
      ELSE getTextValue(expected.alcoholContent) # << >>

\* shouldCheckCountryOfOrigin looking at the country text only
shouldCheckCountryOfOriginTextOnly(expected) ==
  getTextValue(expected.countryOfOrigin) # << >>

shouldCheckCountryOfOrigin(expected) ==
  expected.isImported /\ getTextValue(expected.countryOfOrigin) # << >>

shouldCheckAdditives(expected) ==
  \E a \in AdditiveKeySet : expected.additivesDetected[a]

getEvaluationFlags(expected) ==
  [ includeAlcohol |-> shouldCheckAlcoholContent(expected),
    includeCountry |-> shouldCheckCountryOfOrigin(expected),
    includeAdditives |-> shouldCheckAdditives(expected) ]

\* applyEvaluationOverrides without the additivesDisclosed override
applyEvaluationOverridesNoAdditives(fields, flags) ==
  [ fields EXCEPT
      !.alcoholContent = IF flags.includeAlcohol THEN fields.alcoholContent ELSE 1,
      !.countryOfOrigin = IF flags.includeCountry THEN fields.countryOfOrigin ELSE 1 ]

applyEvaluationOverrides(fields, flags) ==
  [ fields EXCEPT
      !.alcoholContent = IF flags.includeAlcohol THEN fields.alcoholContent ELSE 1,
      !.countryOfOrigin = IF flags.includeCountry THEN fields.countryOfOrigin ELSE 1,
      !.additivesDisclosed =
         IF flags.includeAdditives THEN fields.additivesDisclosed ELSE 1 ]

\* buildDecision with some() in place of every()
buildDecisionSome(fields) ==
  [ fields |-> fields,
    passed |-> \E k \in DOMAIN fields : fields[k] = 1 ]

buildDecision(fields) ==
  [ fields |-> fields,
    passed |-> \A k \in DOMAIN fields : fields[k] = 1 ]

buildDefaultFields(flags, defaultValue) ==
  [ brandName |-> defaultValue,
    classType |-> defaultValue,
    alcoholContent |-> IF flags.includeAlcohol THEN defaultValue ELSE 1,
    netContents |-> defaultValue,
    governmentWarning |-> defaultValue,
    bottlerProducer |-> defaultValue,
    countryOfOrigin |-> IF flags.includeCountry THEN defaultValue ELSE 1,
    additivesDisclosed |-> IF flags.includeAdditives THEN defaultValue ELSE 1 ]

getExpectedValue(expected, key) ==
  IF key = "additivesDisclosed" THEN expected.additivesDetected
  ELSE expected[key]

similarityScore(key, extracted, expected) ==
  IF expected = Null THEN << 0, 1 >>
  ELSE IF key = "additivesDisclosed"
    THEN IF extracted = Null THEN << 0, 1 >>
         ELSE << Cardinality({ a \in AdditiveKeySet : expected[a] = extracted[a] }),
                 Len(ADDITIVE_KEYS) >>
  ELSE LET expectedText == normalizeForSimilarity(getTextValue(expected))
           extractedText == normalizeForSimilarity(getTextValue(extracted))
       IN  IF expectedText = << >> THEN << 0, 1 >>
           ELSE similarityRatio(extractedText, expectedText)

\* BetterContender without the preference for a contender that has a value
BetterContenderIgnoringValue(best, current) ==
  IF ~RatEq(current.similarity, best.similarity)
    THEN IF RatLess(best.similarity, current.similarity) THEN current ELSE best
  ELSE IF current.index < best.index THEN current ELSE best

\* BetterContender with the index comparison reversed
BetterContenderHigherIndex(best, current) ==
  IF ~RatEq(current.similarity, best.similarity)
    THEN IF RatLess(best.similarity, current.similarity) THEN current ELSE best
  ELSE IF current.hasValue # best.hasValue
    THEN IF current.hasValue THEN current ELSE best
  ELSE IF current.index > best.index THEN current ELSE best

\* the reducer of selectContender: the better of best and current
BetterContender(best, current) ==
  IF ~RatEq(current.similarity, best.similarity)
    THEN IF RatLess(best.similarity, current.similarity) THEN current ELSE best
  ELSE IF current.hasValue # best.hasValue
    THEN IF current.hasValue THEN current ELSE best
  ELSE IF current.index < best.index THEN current ELSE best

RECURSIVE ReduceContenders(_, _)
ReduceContenders(best, rest) ==
  IF rest = << >> THEN best
  ELSE ReduceContenders(BetterContender(best, Head(rest)), Tail(rest))

\* selectContender without the restriction of the pool
selectContenderAnyScore(contenders, requireAccurate) ==
  ReduceContenders(Head(contenders), Tail(contenders))

selectContender(contenders, requireAccurate) ==
  LET pool == IF requireAccurate
                THEN SelectSeq(contenders, LAMBDA c : c.score = 1)
                ELSE contenders
  IN  ReduceContenders(Head(pool), Tail(pool))

countMissingFields(extracted) ==
  Cardinality({ k \in FieldKeySet : extracted[k] = Null })

(***************************************************************************)
(* Data the requests range over                                            *)
(***************************************************************************)
NumModels == 2

TxtAcme == << "A","c","m","e" >>
TxtAcmeLoud == << "A","C","M","E","." >>
TxtAcne == << "A","c","n","e" >>
TxtRum == << "R","u","m" >>
TxtPaleAle == << "P","a","l","e"," ","A","l","e" >>
TxtRedWine == << "R","e","d"," ","W","i","n","e" >>
TxtIpa == << "I","P","A" >>
TxtRed == << "R","e","d" >>
Txt5 == << "5","%" >>
Txt6p5 == << "6",".","5","%" >>
Txt12 == << "1","2","%" >>
Txt40 == << "4","0","%" >>
TxtAbvWords == << "A","B","V" >>
Txt7 == << "7","%" >>
TxtAlc6p5 == << "A","l","c","."," ","6",".","5","%" >>
Txt750 == << "7","5","0"," ","M","L" >>
Txt750Tight == << "7","5","0","m","l" >>
TxtWarn == << "W","A","R","N",":"," ","x" >>
TxtWarnBad == << "W","A","R","M" >>
TxtBottler == << "B","o","t"," ","C","o" >>
TxtBottlerShort == << "B","o","t" >>
TxtCuba == << "C","u","b","a" >>
TxtUK == << "U","K" >>

Field(text) == [text |-> text]
Warning(text, isBold, isAllCaps) ==
  [text |-> text, isBold |-> isBold, isAllCaps |-> isAllCaps]

NoAdditives == [a \in AdditiveKeySet |-> FALSE]
Sulfites == [NoAdditives EXCEPT !["sulfitesGe10ppm"] = TRUE]
SulfitesAndCarmine == [Sulfites EXCEPT !["carmine"] = TRUE]

ExpectedBase ==
  [ productType |-> "rum",
    brandName |-> Field(TxtAcme),
    classType |-> Field(TxtRum),
    alcoholContent |-> Field(Txt40),
    netContents |-> Field(Txt750),
    governmentWarning |-> Warning(TxtWarn, TRUE, TRUE),
    bottlerProducer |-> Field(TxtBottler),
    countryOfOrigin |-> Field(TxtCuba),
    ageYears |-> Null,
    isImported |-> TRUE,
    beerHasAddedFlavorsWithAlcohol |-> FALSE,
    additivesDetected |-> NoAdditives ]

\* imported rum: alcohol content and country in scope
ExpRum == ExpectedBase
\* beer by product type, domestic, country text given all the same
ExpBeer ==
  [ExpectedBase EXCEPT !.productType = "beer", !.classType = Field(TxtIpa),
                       !.alcoholContent = Field(Txt5), !.isImported = FALSE,
                       !.countryOfOrigin = Field(TxtUK)]
\* beer by class/type keyword only, imported
ExpAle ==
  [ExpectedBase EXCEPT !.productType = "none", !.classType = Field(TxtPaleAle),
                       !.alcoholContent = Field(Txt5),
                       !.countryOfOrigin = Field(TxtUK),
                       !.additivesDetected = Sulfites]
\* wine under 7%, domestic
ExpWineLow ==
  [ExpectedBase EXCEPT !.productType = "wine", !.classType = Field(TxtRed),
                       !.alcoholContent = Field(Txt6p5), !.isImported = FALSE,
                       !.countryOfOrigin = Null,
                       !.additivesDetected = Sulfites]
\* wine by class/type, 12%, imported without a country text
ExpWine ==
  [ExpectedBase EXCEPT !.productType = "none", !.classType = Field(TxtRedWine),
                       !.alcoholContent = Field(Txt12),
                       !.countryOfOrigin = Null]
\* beer whose alcohol text has no number
ExpBeerWords ==
  [ExpectedBase EXCEPT !.productType = "beer", !.classType = Field(TxtIpa),
                       !.alcoholContent = Field(TxtAbvWords), !.isImported = FALSE,
                       !.countryOfOrigin = Null]

\* rum without an alcohol-content text, domestic with a country text
ExpRumBare ==
  [ExpectedBase EXCEPT !.alcoholContent = Null, !.isImported = FALSE,
                       !.additivesDetected = Sulfites]

\* wine whose alcohol text has no number
ExpWineWords ==
  [ExpectedBase EXCEPT !.productType = "wine", !.classType = Field(TxtRed),
                       !.alcoholContent = Field(TxtAbvWords)]
\* wine without an alcohol-content text
ExpWineBare ==
  [ExpectedBase EXCEPT !.productType = "wine", !.classType = Field(TxtRedWine),
                       !.alcoholContent = Null]
\* wine by class/type at exactly 7%
ExpWineSeven ==
  [ExpectedBase EXCEPT !.productType = "none", !.classType = Field(TxtRedWine),
                       !.alcoholContent = Field(Txt7)]
\* wine by class/type under 7%, the number not at the start of the text
ExpWineLowByClass ==
  [ExpectedBase EXCEPT !.productType = "none", !.classType = Field(TxtRedWine),
                       !.alcoholContent = Field(TxtAlc6p5)]

\* the expected records of requests
ExpectedSet == { ExpRum, ExpBeer, ExpAle, ExpWineLow, ExpWine }

\* every expected record the heuristics are applied to
AllExpected ==
  ExpectedSet \cup { ExpBeerWords, ExpRumBare, ExpWineWords, ExpWineBare,
                     ExpWineSeven, ExpWineLowByClass }

\* records the extraction model may return
ExtGood ==
  [ brandName |-> Field(TxtAcme),
    classType |-> Field(TxtRum),
    alcoholContent |-> Field(Txt40),
    netContents |-> Field(Txt750),
    governmentWarning |-> Warning(TxtWarn, TRUE, TRUE),
    bottlerProducer |-> Field(TxtBottler),
    countryOfOrigin |-> Field(TxtCuba),
    additivesDisclosed |-> NoAdditives ]

ExtSparse ==
  [ brandName |-> Field(TxtAcmeLoud),
    classType |-> Null,
    alcoholContent |-> Field(Txt5),
    netContents |-> Field(Txt750Tight),
    governmentWarning |-> Warning(TxtWarnBad, FALSE, TRUE),
    bottlerProducer |-> Null,
    countryOfOrigin |-> Null,
    additivesDisclosed |-> Null ]

ExtOther ==
  [ brandName |-> Field(TxtAcne),
    classType |-> Field(TxtPaleAle),
    alcoholContent |-> Null,
    netContents |-> Null,
    governmentWarning |-> Null,
    bottlerProducer |-> Field(TxtBottlerShort),
    countryOfOrigin |-> Field(TxtUK),
    additivesDisclosed |-> SulfitesAndCarmine ]

\* as many fields missing as in ExtOther, but other ones
ExtPartial ==
  [ brandName |-> Field(TxtAcme),
    classType |-> Null,
    alcoholContent |-> Field(Txt40),
    netContents |-> Null,
    governmentWarning |-> Warning(TxtWarn, TRUE, TRUE),
    bottlerProducer |-> Null,
    countryOfOrigin |-> Field(TxtCuba),
    additivesDisclosed |-> NoAdditives ]

ExtractedSet == { ExtGood, ExtSparse, ExtOther, ExtPartial }

\* every score vector the scoring model can return
AllScores == [FieldKeySet -> {0, 1}]

\* score vectors returned within a request: every combination for the
\* three optional fields, the five required fields scored alike
ModelScores ==
  { f \in AllScores :
      \A k \in { "classType", "netContents", "governmentWarning",
                 "bottlerProducer" } : f[k] = f["brandName"] }

(***************************************************************************)
(* The heuristics are pure: their values on the records above are computed *)
(* once and looked up afterwards.                                          *)
(***************************************************************************)
SimilarityArguments ==
  { << key, x[key], getExpectedValue(e, key) >> :
      key \in FieldKeySet, x \in ExtractedSet, e \in AllExpected }

SimilarityTable ==
  [ t \in SimilarityArguments |-> similarityScore(t[1], t[2], t[3]) ]

EvaluationFlagsTable == [ e \in AllExpected |-> getEvaluationFlags(e) ]

(***************************************************************************)
(* Candidate merger (merger.ts)                                            *)
(***************************************************************************)
\* candidate.evaluation?.fields ?? fallbackFields
CandidateFields(candidate, fallbackFields) ==
  IF candidate.evaluation = Null THEN fallbackFields
  ELSE candidate.evaluation.fields

Contenders(candidates, candidateFields, expected, key) ==
  [ index \in 1..Len(candidates) |->
      LET value == candidates[index].extracted[key]
      IN  [ index |-> index - 1,
            score |-> candidateFields[index][key],
            similarity |->
              SimilarityTable[<< key, value, getExpectedValue(expected, key) >>],
            hasValue |-> value # Null ] ]

\* HasAccurate asking every contender to have scored 1
HasAccurateEvery(contenders) ==
  \A i \in 1..Len(contenders) : contenders[i].score = 1

\* contenders.some((contender) => contender.score === 1)
HasAccurate(contenders) ==
  \E i \in 1..Len(contenders) : contenders[i].score = 1

\* SelectedValue with the countryOfOrigin case of the switch missing
SelectedValueNoCountry(candidates, index, key) ==
  IF key = "countryOfOrigin" THEN Null
  ELSE candidates[index + 1].extracted[key]

\* the switch of mergeCandidates: the field of the merged label is the
\* field of the selected candidate
SelectedValue(candidates, index, key) == candidates[index + 1].extracted[key]

\* the contenders mergeCandidates builds for one field
FieldContenders(candidates, expected, key) ==
  Contenders(candidates,
             [ i \in 1..Len(candidates) |->
                 CandidateFields(candidates[i],
                     buildDefaultFields(EvaluationFlagsTable[expected], 0)) ],
             expected, key)

\* const best = selectContender(contenders, hasAccurate)
BestContender(candidates, expected, key) ==
  LET Best(contenders) == selectContender(contenders, HasAccurate(contenders))
  IN  Best(FieldContenders(candidates, expected, key))

mergeCandidates(candidates, expected) ==
  LET Evaluation(mergedFields) ==
        [ fields |-> mergedFields,
          passed |-> \A key \in FieldKeySet : mergedFields[key] = 1 ]
  IN  [ label |->
          [ key \in FieldKeySet |->
              SelectedValue(candidates,
                            BestContender(candidates, expected, key).index, key) ],
        evaluation |->
          Evaluation([ key \in FieldKeySet |->
                         IF HasAccurate(FieldContenders(candidates, expected, key))
                           THEN 1 ELSE 0 ]) ]

(***************************************************************************)
(* Model client: responses and errors                                      *)
(***************************************************************************)
\* an error carries status, code, type and message; NoStatus and "none"
\* stand for an absent property
NoStatus == 0

MkError(status, code, type, message) ==
  [status |-> status, code |-> code, type |-> type, message |-> message]

ErrRateLimit == MkError(429, "rate_limit_exceeded", "none", "Too many requests")
ErrQuota == MkError(NoStatus, "none", "insufficient_quota", "Quota exceeded")
ErrRateLimitText == MkError(NoStatus, "none", "none", "Rate limit reached")
ErrContentPolicy ==
  MkError(400, "content_policy_violation", "none", "Content filtered")
ErrUnavailable == MkError(503, "none", "server_error", "Service unavailable")
ErrNetwork == MkError(NoStatus, "ECONNRESET", "none", "Connection error")

ErrorSet ==
  { ErrRateLimit, ErrQuota, ErrRateLimitText, ErrContentPolicy,
    ErrUnavailable, ErrNetwork }

\* messages matched by /rate limit/i
RateLimitMessages == { "Rate limit reached" }

\* error?.code ?? error?.type
ErrorCode(error) == IF error.code # "none" THEN error.code ELSE error.type

isRateLimitError(error) ==
  \/ error.status = 429
  \/ ErrorCode(error) \in
       { "rate_limit_exceeded", "too_many_requests", "insufficient_quota" }
  \/ error.message \in RateLimitMessages

\* getErrorStatus ignoring the status the error carries
getErrorStatusFallbackOnly(error, fallback) ==
  IF isRateLimitError(error) THEN 429 ELSE fallback

getErrorStatus(error, fallback) ==
  IF error.status # NoStatus THEN error.status
  ELSE IF isRateLimitError(error) THEN 429 ELSE fallback

getErrorMessage(error, fallback) ==
  IF error.message # "none" THEN error.message ELSE fallback

RATE_LIMIT_RETRIES == 4
RATE_LIMIT_INITIAL_DELAY_MS == 2000
RATE_LIMIT_MAX_DELAY_MS == 15000

waitError ==
  MkError(429, "none", "none",
          "All models are at capacity. Please wait and try again.")

\* outcomes of one model call
Success(parsed) == [ok |-> TRUE, parsed |-> parsed]
Failure(error) == [ok |-> FALSE, error |-> error]

ExtractionOutcomes ==
  { Success(x) : x \in ExtractedSet \cup {Null} }
    \cup { Failure(e) : e \in ErrorSet }

EvaluationOutcomes ==
  { Success(f) : f \in ModelScores \cup {Null} }
    \cup { Failure(e) : e \in ErrorSet }

(***************************************************************************)
(* callWithModelFallback (engine.ts)                                       *)
(*                                                                         *)
(* One invocation is a record: st is "call" (a request to model m is in    *)
(* flight), "policyWait" (the 300 ms timer before the second request),     *)
(* "retry" (the second request is in flight), "sleep" (the backoff timer), *)
(* "resolved" or "rejected"; value holds the result or the error.          *)
(* allRateLimited records that every response so far was a rate-limit      *)
(* rejection.                                                              *)
(***************************************************************************)
NotStarted == [st |-> "idle"]

NewCall ==
  [ st |-> "call", attempt |-> 0, m |-> 1, sawRateLimit |-> FALSE,
    delayMs |-> RATE_LIMIT_INITIAL_DELAY_MS, value |-> Null,
    allRateLimited |-> TRUE ]

\* the invocation has returned or thrown: its loop variables are gone
Reject(c, error) ==
  [st |-> "rejected", value |-> error, allRateLimited |-> c.allRateLimited]
Resolve(c, value) ==
  [st |-> "resolved", value |-> value, allRateLimited |-> FALSE]

\* PassesExhausted without the retry ceiling
PassesExhaustedNoCeiling(sawRateLimit, attempt) == ~sawRateLimit

\* if (!sawRateLimit || attempt === RATE_LIMIT_RETRIES) break
PassesExhausted(sawRateLimit, attempt) ==
  ~sawRateLimit \/ attempt = RATE_LIMIT_RETRIES

\* the for loop has run out of models
EndOfPass(c) ==
  IF PassesExhausted(c.sawRateLimit, c.attempt)
    THEN Reject(c, waitError)
    ELSE [c EXCEPT !.st = "sleep"]

\* continue: the next model of the list, if any
NextModel(c) ==
  IF c.m < NumModels THEN [c EXCEPT !.m = c.m + 1, !.st = "call"]
  ELSE EndOfPass(c)

\* OnRunnerError going on to the next model after any error
OnRunnerErrorAnyError(c, error) == NextModel([c EXCEPT !.sawRateLimit = TRUE])

\* the catch block of callWithModelFallback
OnRunnerError(c, error) ==
  IF isRateLimitError(error)
    THEN NextModel([c EXCEPT !.sawRateLimit = TRUE])
    ELSE Reject([c EXCEPT !.allRateLimited = FALSE], error)

\* NextDelay without the cap of RATE_LIMIT_MAX_DELAY_MS
NextDelayUncapped(delayMs) == delayMs * 2

NextDelay(delayMs) ==
  IF delayMs * 2 < RATE_LIMIT_MAX_DELAY_MS
    THEN delayMs * 2 ELSE RATE_LIMIT_MAX_DELAY_MS

\* AfterSleep without attempt += 1
AfterSleepSameAttempt(c) ==
  [c EXCEPT !.st = "call", !.delayMs = NextDelay(c.delayMs), !.m = 1,
            !.sawRateLimit = FALSE]

\* after await sleep(delayMs): the next pass starts with the first model
AfterSleep(c) ==
  [c EXCEPT !.st = "call", !.attempt = c.attempt + 1,
            !.delayMs = NextDelay(c.delayMs), !.m = 1,
            !.sawRateLimit = FALSE]

\* the runner of runExtractionPass: first response of model m
ExtractionFirstResponse(c, outcome) ==
  IF outcome.ok THEN Resolve(c, outcome.parsed)
  ELSE IF ErrorCode(outcome.error) = "content_policy_violation"
    THEN [c EXCEPT !.st = "policyWait", !.allRateLimited = FALSE]
    ELSE OnRunnerError(c, outcome.error)

\* ExtractionRetryResponse treating the second response like the first
ExtractionRetryResponseAgain(c, outcome) ==
  IF outcome.ok THEN Resolve(c, outcome.parsed)
  ELSE IF ErrorCode(outcome.error) = "content_policy_violation"
    THEN [c EXCEPT !.st = "policyWait", !.allRateLimited = FALSE]
    ELSE OnRunnerError(c, outcome.error)

\* the runner of runExtractionPass: response to the second request
ExtractionRetryResponse(c, outcome) ==
  IF outcome.ok THEN Resolve(c, outcome.parsed)
  ELSE OnRunnerError(c, outcome.error)

\* runEvaluationPass after callWithModelFallback returned a response
EvaluationResult(expectedData, parsed) ==
  IF parsed = Null THEN Null
  ELSE buildDecision(
         applyEvaluationOverrides(parsed, EvaluationFlagsTable[expectedData]))

\* the runner of runEvaluationPass has no retry of its own
EvaluationResponse(c, expectedData, outcome) ==
  IF outcome.ok THEN Resolve(c, EvaluationResult(expectedData, outcome.parsed))
  ELSE OnRunnerError(c, outcome.error)

(***************************************************************************)
(* One request: extractLabelFromFormData / extractLabelFromBlobName        *)
(***************************************************************************)
VARIABLES
  pc,                \* "start", "ingestForm", "ingestBlob", "extracting",
                     \* "evaluating", "done"
  expectedData,      \* the expected record of the request, or Null
  ext,               \* the two runExtractionPass invocations
  candidates,        \* the ExtractionCandidate array of the request
  evl,               \* one runEvaluationPass invocation per candidate
  extractionResult,  \* what runExtractionPasses returned, once it has
  result,            \* what the caller of the request received
  scoring,           \* the last runEvaluationPass applied on its own
  comparison,        \* the last use of the label comparator (compare.ts)
  fallback,          \* one invocation of callWithModelFallback and what it did
  batch              \* one run of the batch processing of the upload page

vars ==
  << pc, expectedData, ext, candidates, evl, extractionResult, result, scoring, comparison, fallback, batch >>

NUM_EXTRACTION_PASSES == 2
Attempts == 1..NUM_EXTRACTION_PASSES

Pending == [kind |-> "pending"]
\* ExtractLabelError and ExtractLabelSuccess
ErrorResult(status, error) ==
  [kind |-> "failure", status |-> status, error |-> error]
SuccessResult(label, evaluation) ==
  [kind |-> "success", label |-> label, evaluation |-> evaluation]
\* the promise returned to the caller was rejected with this error
Thrown(error) == [kind |-> "rejected", error |-> error]

\* StepResult of runExtractionPasses
StepOk(value) == [kind |-> "ok", value |-> value]
StepError(error) == [kind |-> "error", error |-> error]

\* environment and payloads of a request
EnvSet ==
  [ endpoint : BOOLEAN, apiKey : BOOLEAN, deployments : {0, NumModels} ]

ExpectedPayloads ==
  { [kind |-> "absent"], [kind |-> "badJson"], [kind |-> "badSchema"] }
    \cup { [kind |-> "valid", data |-> e] : e \in ExpectedSet }

validateConfig(env) ==
  IF ~env.endpoint \/ ~env.apiKey \/ env.deployments = 0
    THEN StepError(ErrorResult(500, "Missing Azure OpenAI configuration"))
    ELSE StepOk(env)

getImageFromFormData(hasImage) ==
  IF ~hasImage THEN StepError(ErrorResult(400, "Image file is required"))
  ELSE StepOk(hasImage)

\* parseExpectedData accepting a payload that fails schema validation
parseExpectedDataUnvalidated(expectedRaw) ==
  IF expectedRaw.kind = "valid" THEN expectedRaw.data
  ELSE IF expectedRaw.kind = "badSchema" THEN ExpRum
  ELSE Null

parseExpectedData(expectedRaw) ==
  IF expectedRaw.kind = "valid" THEN expectedRaw.data ELSE Null

Init ==
  /\ pc = "start"
  /\ expectedData = Null
  /\ ext = [a \in Attempts |-> NotStarted]
  /\ candidates = << >>
  /\ evl = << >>
  /\ extractionResult = Pending
  /\ result = Pending
  /\ scoring = [state |-> "idle"]
  /\ comparison = [state |-> "idle"]
  /\ fallback = [state |-> "idle"]
  /\ batch = [state |-> "idle"]

\* extractLabelFromFormData up to its first await
StartFormData(env, hasImage, expectedRaw) ==
  /\ pc = "start"
  /\ IF validateConfig(env).kind = "error"
       THEN /\ result' = validateConfig(env).error
            /\ pc' = "done"
            /\ UNCHANGED expectedData
     ELSE IF getImageFromFormData(hasImage).kind = "error"
       THEN /\ result' = getImageFromFormData(hasImage).error
            /\ pc' = "done"
            /\ UNCHANGED expectedData
     ELSE /\ expectedData' = parseExpectedData(expectedRaw)
          /\ pc' = "ingestForm"
          /\ UNCHANGED result
  /\ UNCHANGED << ext, candidates, evl, extractionResult, scoring, comparison, fallback, batch >>

\* extractLabelFromBlobName up to its first await
StartBlobName(env, expected) ==
  /\ pc = "start"
  /\ IF validateConfig(env).kind = "error"
       THEN /\ result' = validateConfig(env).error
            /\ pc' = "done"
            /\ UNCHANGED expectedData
     ELSE /\ expectedData' = expected
          /\ pc' = "ingestBlob"
          /\ UNCHANGED result
  /\ UNCHANGED << ext, candidates, evl, extractionResult, scoring, comparison, fallback, batch >>

\* compressAndUploadImage / createReadSasUrl completes; on success
\* runExtractionPasses sends the first request of both attempts
ImageReady(storageOk) ==
  /\ pc \in {"ingestForm", "ingestBlob"}
  /\ IF storageOk
       THEN /\ pc' = "extracting"
            /\ ext' = [a \in Attempts |-> NewCall]
            /\ UNCHANGED result
       ELSE /\ pc' = "done"
            /\ result' = ErrorResult(502,
                 IF pc = "ingestForm" THEN "Failed to upload image to storage"
                 ELSE "Failed to create read URL for image")
            /\ UNCHANGED ext
  /\ UNCHANGED << expectedData, candidates, evl, extractionResult, scoring, comparison, fallback, batch >>

\* extractionResults.forEach: keep the parsed records, in attempt order
RECURSIVE BuildCandidates(_, _)
BuildCandidates(results, a) ==
  IF a > NUM_EXTRACTION_PASSES THEN << >>
  ELSE IF results[a] = Null THEN BuildCandidates(results, a + 1)
  ELSE << [extracted |-> results[a], evaluation |-> Null, index |-> a - 1] >>
         \o BuildCandidates(results, a + 1)

\* BetterCandidate giving a tie to the later candidate
BetterCandidateLaterOnTie(best, candidate) ==
  IF countMissingFields(candidate.extracted) # countMissingFields(best.extracted)
    THEN IF countMissingFields(candidate.extracted) < countMissingFields(best.extracted)
           THEN candidate ELSE best
  ELSE candidate

\* the reducer of extractFromImageUrl when there is no expected record
BetterCandidate(best, candidate) ==
  LET bestMissing == countMissingFields(best.extracted)
      candidateMissing == countMissingFields(candidate.extracted)
  IN  IF candidateMissing # bestMissing
        THEN IF candidateMissing < bestMissing THEN candidate ELSE best
      ELSE IF candidate.index < best.index THEN candidate ELSE best

RECURSIVE ReduceCandidates(_, _)
ReduceCandidates(best, rest) ==
  IF rest = << >> THEN best
  ELSE ReduceCandidates(BetterCandidate(best, Head(rest)), Tail(rest))

\* the catch block of runExtractionPasses
ExtractionFailure(error) ==
  ErrorResult(getErrorStatus(error, 502),
              getErrorMessage(error, "Extraction failed. Please wait and try again."))

\* extractFromImageUrl once every evaluation is in
FinalResult(cands, expected) ==
  IF expected = Null
    THEN SuccessResult(ReduceCandidates(Head(cands), Tail(cands)).extracted, Null)
    ELSE LET Merged(merged) == SuccessResult(merged.label, merged.evaluation)
         IN  Merged(mergeCandidates(cands, expected))

\* runExtractionPasses and its caller react to attempt a having moved:
\* Promise.all rejects with the first rejection and fulfils once both
\* attempts have resolved
AfterExtractionStep(ext2, a) ==
  IF pc # "extracting" THEN
    UNCHANGED << pc, candidates, evl, extractionResult, result >>
  ELSE IF ext2[a].st = "rejected" THEN
    /\ extractionResult' = StepError(ExtractionFailure(ext2[a].value))
    /\ result' = ExtractionFailure(ext2[a].value)
    /\ pc' = "done"
    /\ UNCHANGED << candidates, evl >>
  ELSE IF \A b \in Attempts : ext2[b].st = "resolved" THEN
    LET cands == BuildCandidates([b \in Attempts |-> ext2[b].value], 1)
    IN  IF cands = << >> THEN
          /\ extractionResult' =
               StepError(ErrorResult(502, "No label data extracted"))
          /\ result' = ErrorResult(502, "No label data extracted")
          /\ pc' = "done"
          /\ UNCHANGED << candidates, evl >>
        ELSE
          /\ extractionResult' = StepOk(cands)
          /\ candidates' = cands
          /\ IF expectedData = Null
               THEN /\ result' = FinalResult(cands, Null)
                    /\ pc' = "done"
                    /\ UNCHANGED evl
               ELSE /\ evl' = [i \in 1..Len(cands) |-> NewCall]
                    /\ pc' = "evaluating"
                    /\ UNCHANGED result
  ELSE UNCHANGED << pc, candidates, evl, extractionResult, result >>

\* a response to the first request of extraction attempt a arrives
ExtractionResponse(a, outcome) ==
  /\ ext[a].st = "call"
  /\ LET ext2 == [ext EXCEPT ![a] = ExtractionFirstResponse(ext[a], outcome)]
     IN  /\ ext' = ext2
         /\ AfterExtractionStep(ext2, a)
  /\ UNCHANGED << expectedData, scoring, comparison, fallback, batch >>

\* the 300 ms timer of attempt a fires and the second request is sent
ExtractionPolicyTimer(a) ==
  /\ ext[a].st = "policyWait"
  /\ ext' = [ext EXCEPT ![a].st = "retry"]
  /\ UNCHANGED << pc, expectedData, candidates, evl, extractionResult, result, scoring, comparison, fallback, batch >>

\* a response to the second request of extraction attempt a arrives
ExtractionRetry(a, outcome) ==
  /\ ext[a].st = "retry"
  /\ LET ext2 == [ext EXCEPT ![a] = ExtractionRetryResponse(ext[a], outcome)]
     IN  /\ ext' = ext2
         /\ AfterExtractionStep(ext2, a)
  /\ UNCHANGED << expectedData, scoring, comparison, fallback, batch >>

\* the backoff timer of extraction attempt a fires
ExtractionSleepDone(a) ==
  /\ ext[a].st = "sleep"
  /\ ext' = [ext EXCEPT ![a] = AfterSleep(ext[a])]
  /\ UNCHANGED << pc, expectedData, candidates, evl, extractionResult, result, scoring, comparison, fallback, batch >>

\* evaluations.forEach((evaluation, index) => candidates[index].evaluation = ...)
AssignEvaluations(cands, evaluations) ==
  [i \in 1..Len(cands) |-> [cands[i] EXCEPT !.evaluation = evaluations[i]]]

\* evaluateCandidates and its callers react to scoring call i having moved
AfterEvaluationStep(evl2, i) ==
  IF pc # "evaluating" THEN UNCHANGED << pc, candidates, result >>
  ELSE IF evl2[i].st = "rejected" THEN
    /\ result' = Thrown(evl2[i].value)
    /\ pc' = "done"
    /\ UNCHANGED candidates
  ELSE IF \A j \in 1..Len(evl2) : evl2[j].st = "resolved" THEN
    /\ candidates' =
         AssignEvaluations(candidates, [j \in 1..Len(evl2) |-> evl2[j].value])
    /\ result' = FinalResult(candidates', expectedData)
    /\ pc' = "done"
  ELSE UNCHANGED << pc, candidates, result >>

\* a response to the request of scoring call i arrives
EvaluationStep(i, outcome) ==
  /\ i \in 1..Len(evl)
  /\ evl[i].st = "call"
  /\ LET evl2 == [evl EXCEPT ![i] = EvaluationResponse(evl[i], expectedData, outcome)]
     IN  /\ evl' = evl2
         /\ AfterEvaluationStep(evl2, i)
  /\ UNCHANGED << expectedData, ext, extractionResult, scoring, comparison, fallback, batch >>

\* the backoff timer of scoring call i fires
EvaluationSleepDone(i) ==
  /\ i \in 1..Len(evl)
  /\ evl[i].st = "sleep"
  /\ evl' = [evl EXCEPT ![i] = AfterSleep(evl[i])]
  /\ UNCHANGED << pc, expectedData, ext, candidates, extractionResult, result, scoring, comparison, fallback, batch >>

Next ==
  \/ \E env \in EnvSet, hasImage \in BOOLEAN, raw \in ExpectedPayloads :
       StartFormData(env, hasImage, raw)
  \/ \E env \in EnvSet, expected \in ExpectedSet \cup {Null} :
       StartBlobName(env, expected)
  \/ \E storageOk \in BOOLEAN : ImageReady(storageOk)
  \/ \E a \in Attempts, outcome \in ExtractionOutcomes :
       ExtractionResponse(a, outcome)
  \/ \E a \in Attempts : ExtractionPolicyTimer(a)
  \/ \E a \in Attempts, outcome \in ExtractionOutcomes :
       ExtractionRetry(a, outcome)
  \/ \E a \in Attempts : ExtractionSleepDone(a)
  \/ \E i \in Attempts, outcome \in EvaluationOutcomes :
       EvaluationStep(i, outcome)
  \/ \E i \in Attempts : EvaluationSleepDone(i)

Spec == Init /\ [][Next]_vars

(***************************************************************************)
(* runEvaluationPass on its own: the scoring of one candidate against one  *)
(* expected record, for every score vector the model can return            *)
(***************************************************************************)
ScoreCandidate(expected, parsed) ==
  /\ scoring.state = "idle"
  /\ scoring' = [ state |-> "scored", expected |-> expected, parsed |-> parsed,
                  decision |-> EvaluationResult(expected, parsed) ]
  /\ UNCHANGED << pc, expectedData, ext, candidates, evl, extractionResult, result,
                  comparison, fallback, batch >>

ScoringNext ==
  \E expected \in AllExpected, parsed \in AllScores \cup {Null} :
    ScoreCandidate(expected, parsed)

ScoringSpec == Init /\ [][ScoringNext]_vars

(***************************************************************************)
(* Label comparator (compare.ts): text and number helpers                  *)
(***************************************************************************)
\* String.prototype.toUpperCase on one character
UpperOf == [c \in LowerSet |-> UpperChars[CHOOSE i \in 1..26 : LowerChars[i] = c]]
ToUpperChar(c) == IF c \in LowerSet THEN UpperOf[c] ELSE c

toUpperCase(text) == [i \in 1..Len(text) |-> ToUpperChar(text[i])]

normalizeText(text) ==
  trim(CollapseSpaces(StripPunctuation(toLowerCase(text))))

normalizeWhitespace(text) == trim(CollapseSpaces(text))

normalizeGovWarning(text) == toUpperCase(normalizeWhitespace(text))

\* the wording the two revisions of STANDARD_GOV_WARNINGS are built from
WarningTextShort ==
  << "G","O","V","E","R","N","M","E","N","T"," ","W","A","R","N","I","N",
     "G",":"," ","(","1",")"," ","A","C","C","O","R","D","I","N","G"," ",
     "T","O"," ","T","H","E"," ","S","U","R","G","E","O","N"," ","G","E",
     "N","E","R","A","L",","," ","W","O","M","E","N"," ","S","H","O","U",
     "L","D"," ","N","O","T"," ","D","R","I","N","K"," ","A","L","C","O",
     "H","O","L","I","C"," ","B","E","V","E","R","A","G","E","S","." >>

WarningTextMixed ==
  << "G","O","V","E","R","N","M","E","N","T"," ","W","A","R","N","I","N",
     "G",":"," ","(","1",")"," ","A","c","c","o","r","d","i","n","g"," ",
     "t","o"," ","t","h","e"," ","S","u","r","g","e","o","n"," ","G","e",
     "n","e","r","a","l",","," ","w","o","m","e","n"," ","s","h","o","u",
     "l","d"," ","n","o","t"," ","d","r","i","n","k"," ","a","l","c","o",
     "h","o","l","i","c"," ","b","e","v","e","r","a","g","e","s"," ","d",
     "u","r","i","n","g"," ","p","r","e","g","n","a","n","c","y"," ","b",
     "e","c","a","u","s","e"," ","o","f"," ","t","h","e"," ","r","i","s",
     "k"," ","o","f"," ","b","i","r","t","h"," ","d","e","f","e","c","t",
     "s","."," ","(","2",")"," ","C","o","n","s","u","m","p","t","i","o",
     "n"," ","o","f"," ","a","l","c","o","h","o","l","i","c"," ","b","e",
     "v","e","r","a","g","e","s"," ","i","m","p","a","i","r","s"," ","y",
     "o","u","r"," ","a","b","i","l","i","t","y"," ","t","o"," ","d","r",
     "i","v","e"," ","a"," ","c","a","r"," ","o","r"," ","o","p","e","r",
     "a","t","e"," ","m","a","c","h","i","n","e","r","y",","," ","a","n",
     "d"," ","m","a","y"," ","c","a","u","s","e"," ","h","e","a","l","t",
     "h"," ","p","r","o","b","l","e","m","s","." >>

WarningTextUpper == toUpperCase(WarningTextMixed)

\* STANDARD_GOV_WARNINGS of compare.ts
STANDARD_GOV_WARNINGS ==
  { normalizeGovWarning(WarningTextShort), normalizeGovWarning(WarningTextMixed) }

\* text.replace(/[^\d.]/g, "")
NumericChars(text) == SelectSeq(text, LAMBDA c : IsDigit(c) \/ c = ".")

\* text.replace(/[\d.\s]/g, "").toLowerCase()
UnitOf(text) ==
  toLowerCase(SelectSeq(text,
    LAMBDA c : ~IsDigit(c) /\ c # "." /\ c \notin SpaceChars))

\* a number is an exact decimal num / den, or NaN
NaN == [ok |-> FALSE, num |-> 0, den |-> 1]

\* parseFloat on a text of digits and dots: the digits before the first
\* dot and the digits right after it; NaN when there is no digit in either
parseFloat(text) ==
  LET intLen == DigitRun(text, 1)
      fracLen == IF intLen < Len(text) /\ text[intLen + 1] = "."
                   THEN DigitRun(text, intLen + 2) ELSE 0
  IN  IF intLen = 0 /\ fracLen = 0 THEN NaN
      ELSE [ ok |-> TRUE,
             num |-> DigitsValue(SubSeq(text, 1, intLen)) * Pow10(fracLen)
                       + DigitsValue(SubSeq(text, intLen + 2, intLen + 1 + fracLen)),
             den |-> Pow10(fracLen) ]

Abs(n) == IF n < 0 THEN -n ELSE n

\* Math.abs(a - b) as a rational; a comparison with NaN is false
AbsDifference(a, b) == << Abs(a.num * b.den - b.num * a.den), a.den * b.den >>

DifferenceBelow(a, b, limit) ==
  a.ok /\ b.ok /\ RatLess(AbsDifference(a, b), limit)

\* Math.round(x) and x.toFixed(1) * 10 of a non-negative rational
RoundHalfUp(x) == (2 * x[1] + x[2]) \div (2 * x[2])

PASS == "Pass"
WARN == "Warn"
FAIL == "Fail"

\* a VerificationResult; extracted and expected are texts, the fixed
\* phrases of the rule results being texts of one piece
VerificationResult(field, extracted, expected, status, message) ==
  [ field |-> field, extracted |-> extracted, expected |-> expected,
    status |-> status, message |-> message ]

\* extracted?.text ?? ""
TextOf(field) == IF field = Null THEN << >> ELSE field.text

(***************************************************************************)
(* Label comparator (compare.ts): one comparison per field                 *)
(***************************************************************************)
\* the message of a result; value is the number the text is built with
MessageWith(text, value) == [text |-> text, value |-> value]
Message(text) == MessageWith(text, 0)

\* status and message of compareBrand, compareClassType and
\* compareBottlerProducer: > 0.85 passes, > 0.6 warns
FuzzyResult(field, extracted, expected, passMessage, failMessage) ==
  LET extractedText == TextOf(extracted)
      similarity == similarityRatio(normalizeText(extractedText),
                                    normalizeText(expected.text))
  IN  IF RatLess(<< 85, 100 >>, similarity)
        THEN VerificationResult(field, extractedText, expected.text, PASS,
                                Message(passMessage))
      ELSE IF RatLess(<< 6, 10 >>, similarity)
        THEN VerificationResult(field, extractedText, expected.text, WARN,
               MessageWith("Partial match (% similar)",
                 RoundHalfUp(<< 100 * similarity[1], similarity[2] >>)))
      ELSE VerificationResult(field, extractedText, expected.text, FAIL,
                              Message(failMessage))

compareBrand(extracted, expected) ==
  FuzzyResult("Brand", extracted, expected,
              "Brand matches", "Brand does not match")

compareClassType(extracted, expected) ==
  FuzzyResult("Class/Type", extracted, expected,
              "Class/Type matches", "Class/Type does not match")

compareBottlerProducer(extracted, expected) ==
  FuzzyResult("Bottler/Producer", extracted, expected,
              "Bottler/Producer matches", "Bottler/Producer does not match")

compareAlcoholContent(extracted, expected) ==
  LET extractedText == TextOf(extracted)
      extractedNum == parseFloat(NumericChars(extractedText))
      expectedNum == parseFloat(NumericChars(expected.text))
  IN  IF DifferenceBelow(extractedNum, expectedNum, << 1, 10 >>)
        THEN VerificationResult("Alcohol Content", extractedText, expected.text,
                                PASS, Message("ABV matches"))
      ELSE IF DifferenceBelow(extractedNum, expectedNum, << 1, 1 >>)
        THEN VerificationResult("Alcohol Content", extractedText, expected.text,
               WARN,
               MessageWith("ABV close (difference in tenths of a percent)",
                 LET d == AbsDifference(extractedNum, expectedNum)
                 IN  RoundHalfUp(<< 10 * d[1], d[2] >>)))
      ELSE VerificationResult("Alcohol Content", extractedText, expected.text,
                              FAIL, Message("ABV does not match"))

compareNetContents(extracted, expected) ==
  LET extractedText == TextOf(extracted)
      extractedNum == parseFloat(NumericChars(extractedText))
      expectedNum == parseFloat(NumericChars(expected.text))
      extractedUnit == UnitOf(extractedText)
      expectedUnit == UnitOf(expected.text)
  IN  IF extractedUnit # expectedUnit
        THEN VerificationResult("Net Contents", extractedText, expected.text,
                                FAIL, Message("Units do not match"))
      ELSE IF DifferenceBelow(extractedNum, expectedNum, << 1, 10 >>)
        THEN VerificationResult("Net Contents", extractedText, expected.text,
                                PASS, Message("Net contents match"))
      ELSE IF DifferenceBelow(extractedNum, expectedNum,
                              << 5 * expectedNum.num, 100 * expectedNum.den >>)
        THEN VerificationResult("Net Contents", extractedText, expected.text,
                                WARN, Message("Net contents close (within 5%)"))
      ELSE VerificationResult("Net Contents", extractedText, expected.text,
                              FAIL, Message("Net contents do not match"))

compareGovernmentWarning(extracted, expected) ==
  LET extractedText == TextOf(extracted)
      normalizedExtracted == normalizeGovWarning(extractedText)
      normalizedExpected == normalizeGovWarning(expected.text)
      expectedIsStandard == normalizedExpected \in STANDARD_GOV_WARNINGS
      extractedIsStandard == normalizedExtracted \in STANDARD_GOV_WARNINGS
  IN  IF normalizedExtracted = normalizedExpected
        THEN VerificationResult("Government Warning", extractedText,
               expected.text, PASS, Message("Government warning matches exactly"))
      ELSE IF expectedIsStandard /\ extractedIsStandard
        THEN VerificationResult("Government Warning", extractedText,
               expected.text, PASS,
               Message("Government warning matches standard wording"))
      ELSE VerificationResult("Government Warning", extractedText,
             expected.text, FAIL, Message("Government warning does not match"))

\* the alternatives of the prefix pattern of compareCountryOfOrigin
ORIGIN_PREFIXES ==
  << << "p","r","o","d","u","c","e","d"," ","i","n" >>,
     << "m","a","d","e"," ","i","n" >>,
     << "p","r","o","d","u","c","t"," ","o","f" >>,
     << "i","m","p","o","r","t","e","d"," ","f","r","o","m" >>,
     << "o","r","i","g","i","n" >> >>

\* \b between positions i - 1 and i of text
WordBoundary(text, i) ==
  LET before == i > 1 /\ IsWordChar(text[i - 1])
      after == i <= Len(text) /\ IsWordChar(text[i])
  IN  before # after

\* the length of the match of \b(alternatives)\b at position i, or 0
PrefixMatchAt(text, i) ==
  LET matches(k) ==
        /\ i + Len(ORIGIN_PREFIXES[k]) - 1 <= Len(text)
        /\ SubSeq(text, i, i + Len(ORIGIN_PREFIXES[k]) - 1) = ORIGIN_PREFIXES[k]
        /\ WordBoundary(text, i)
        /\ WordBoundary(text, i + Len(ORIGIN_PREFIXES[k]))
      found == { k \in 1..Len(ORIGIN_PREFIXES) : matches(k) }
  IN  IF found = {} THEN 0
      ELSE Len(ORIGIN_PREFIXES[CHOOSE k \in found : \A l \in found : k <= l])

\* .replace(/\b(produced in|made in|product of|imported from|origin)\b/g, "")
RECURSIVE StripOriginPrefixes(_, _)
StripOriginPrefixes(text, i) ==
  IF i > Len(text) THEN << >>
  ELSE IF PrefixMatchAt(text, i) > 0
    THEN StripOriginPrefixes(text, i + PrefixMatchAt(text, i))
    ELSE << text[i] >> \o StripOriginPrefixes(text, i + 1)

compareCountryOfOrigin(extracted, expected) ==
  LET extractedText == TextOf(extracted)
      normalizedExtracted == normalizeText(extractedText)
      normalizedExpected == normalizeText(expected.text)
      cleanedExtracted ==
        trim(CollapseSpaces(StripOriginPrefixes(normalizedExtracted, 1)))
  IN  IF \/ normalizedExtracted = normalizedExpected
         \/ cleanedExtracted = normalizedExpected
         \/ includes(normalizedExtracted, normalizedExpected)
         \/ includes(cleanedExtracted, normalizedExpected)
        THEN VerificationResult("Country of Origin", extractedText,
               expected.text, PASS, Message("Country of origin matches"))
      ELSE IF RatLess(<< 9, 10 >>,
                      similarityRatio(normalizedExtracted, normalizedExpected))
        THEN VerificationResult("Country of Origin", extractedText,
               expected.text, WARN, Message("Country of origin nearly matches"))
      ELSE VerificationResult("Country of Origin", extractedText,
             expected.text, FAIL, Message("Country of origin does not match"))

\* the labels of additiveRules, in the order of ADDITIVE_KEYS
ADDITIVE_LABELS ==
  << "FD&C Yellow No. 5", "cochineal extract", "carmine", "aspartame",
     "Contains Sulfites" >>

RECURSIVE AdditiveRuleResults(_, _, _)
AdditiveRuleResults(extracted, expected, k) ==
  IF k > Len(ADDITIVE_KEYS) THEN << >>
  ELSE LET key == ADDITIVE_KEYS[k]
           disclosed == extracted.additivesDisclosed # Null
                          /\ extracted.additivesDisclosed[key]
       IN  ( IF expected.additivesDetected[key] /\ ~disclosed
               THEN << VerificationResult("Rule: Additive Disclosure",
                         << "Not disclosed" >>, << ADDITIVE_LABELS[k] >>, FAIL,
                         MessageWith("Required additive disclosure missing", k)) >>
               ELSE << >> )
             \o AdditiveRuleResults(extracted, expected, k + 1)

evaluateRegulatoryRules(extracted, expected) ==
  AdditiveRuleResults(extracted, expected, 1)
    \o ( IF expected.isImported /\ TextOf(extracted.countryOfOrigin) = << >>
           THEN << VerificationResult("Rule: Import Country", << "Not found" >>,
                     << "Country of origin required" >>, FAIL,
                     Message("Imported spirits must declare country of origin")) >>
           ELSE << >> )

\* the status every result but the government warning is given
EvaluationStatus(evaluation) ==
  IF evaluation = Null THEN WARN
  ELSE IF evaluation.accurate THEN PASS ELSE FAIL

applyAIEvaluationStatus(results, evaluation) ==
  [ i \in 1..Len(results) |->
      IF results[i].field = "Government Warning" THEN results[i]
      ELSE [results[i] EXCEPT !.status = EvaluationStatus(evaluation)] ]

\* the results of compareLabels before applyAIEvaluationStatus
FieldResults(extracted, expected) ==
  << compareBrand(extracted.brandName, expected.brandName),
     compareClassType(extracted.classType, expected.classType),
     compareNetContents(extracted.netContents, expected.netContents),
     compareGovernmentWarning(extracted.governmentWarning,
                              expected.governmentWarning),
     compareBottlerProducer(extracted.bottlerProducer, expected.bottlerProducer) >>
    \o ( IF expected.alcoholContent # Null
           THEN << compareAlcoholContent(extracted.alcoholContent,
                                         expected.alcoholContent) >>
           ELSE << >> )
    \o ( IF expected.countryOfOrigin # Null
           THEN << compareCountryOfOrigin(extracted.countryOfOrigin,
                                          expected.countryOfOrigin) >>
           ELSE << >> )
    \o evaluateRegulatoryRules(extracted, expected)

compareLabels(extracted, expected, evaluation) ==
  applyAIEvaluationStatus(FieldResults(extracted, expected), evaluation)

\* calculateOverallStatus looking for a warning first
calculateOverallStatusWarningFirst(results) ==
  LET hasError == \E i \in 1..Len(results) : results[i].status = FAIL
      hasWarning == \E i \in 1..Len(results) : results[i].status = WARN
  IN  IF hasWarning THEN WARN
      ELSE IF hasError THEN FAIL
      ELSE PASS

calculateOverallStatus(results) ==
  LET hasError == \E i \in 1..Len(results) : results[i].status = FAIL
      hasWarning == \E i \in 1..Len(results) : results[i].status = WARN
  IN  IF hasError THEN FAIL
      ELSE IF hasWarning THEN WARN
      ELSE PASS

(***************************************************************************)
(* Label comparator, the revision that reports the scores of the           *)
(* evaluation (the comparator kept in azureBlob.ts)                        *)
(***************************************************************************)
\* STANDARD_GOV_WARNINGS of this revision: the full wording in upper and in
\* mixed case
STANDARD_GOV_WARNINGS_FULL ==
  { normalizeGovWarning(WarningTextUpper), normalizeGovWarning(WarningTextMixed) }

isSingleCharDifference(a, b) ==
  IF a = b THEN TRUE
  ELSE IF Abs(Len(a) - Len(b)) > 1 THEN FALSE
  ELSE levenshteinDistance(a, b) <= 1

compareGovernmentWarningByWording(extracted, expected) ==
  LET extractedText == TextOf(extracted)
      normalizedExtracted == normalizeGovWarning(extractedText)
      normalizedExpected == normalizeGovWarning(expected.text)
      looseExtracted == normalizeForSimilarity(extractedText)
      looseExpected == normalizeForSimilarity(expected.text)
      expectedIsStandard == normalizedExpected \in STANDARD_GOV_WARNINGS_FULL
      extractedIsStandard == normalizedExtracted \in STANDARD_GOV_WARNINGS_FULL
  IN  IF \/ isSingleCharDifference(looseExtracted, looseExpected)
         \/ (Len(looseExpected) > 0 /\ includes(looseExtracted, looseExpected))
        THEN VerificationResult("Government Warning", extractedText,
               expected.text, PASS,
               Message("Government warning contains expected wording"))
      ELSE IF expectedIsStandard /\ extractedIsStandard
        THEN VerificationResult("Government Warning", extractedText,
               expected.text, PASS,
               Message("Government warning matches standard wording"))
      ELSE VerificationResult("Government Warning", extractedText,
             expected.text, FAIL, Message("Government warning does not match"))

\* buildEvaluationResult returns null (here the empty list) or one result
buildEvaluationResult(field, expectedText, extractedText, evaluation, key, passMessage, failMessage) ==
  IF expectedText = << >> THEN << >>
  ELSE IF evaluation = Null
    THEN << VerificationResult(field, extractedText, expectedText, WARN,
                               Message("AI evaluation missing")) >>
  ELSE LET passed == evaluation.fields[key] = 1
       IN  << VerificationResult(field, extractedText, expectedText,
                IF passed THEN PASS ELSE FAIL,
                Message(IF passed THEN passMessage ELSE failMessage)) >>

\* the results of this compareLabels before the lone failure is looked for
ScoredResults(extracted, expected, evaluation) ==
  buildEvaluationResult("Brand", TextOf(expected.brandName),
      TextOf(extracted.brandName), evaluation, "brandName",
      "Brand matches", "Brand does not match")
  \o buildEvaluationResult("Class/Type", TextOf(expected.classType),
      TextOf(extracted.classType), evaluation, "classType",
      "Class/Type matches", "Class/Type does not match")
  \o buildEvaluationResult("Net Contents", TextOf(expected.netContents),
      TextOf(extracted.netContents), evaluation, "netContents",
      "Net contents match", "Net contents do not match")
  \o buildEvaluationResult("Bottler/Producer", TextOf(expected.bottlerProducer),
      TextOf(extracted.bottlerProducer), evaluation, "bottlerProducer",
      "Bottler/Producer matches", "Bottler/Producer does not match")
  \o ( IF expected.governmentWarning # Null
         THEN << compareGovernmentWarningByWording(extracted.governmentWarning,
                                                   expected.governmentWarning) >>
         ELSE << >> )
  \o buildEvaluationResult("Alcohol Content", TextOf(expected.alcoholContent),
      TextOf(extracted.alcoholContent), evaluation, "alcoholContent",
      "ABV matches", "ABV does not match")
  \o buildEvaluationResult("Country of Origin", TextOf(expected.countryOfOrigin),
      TextOf(extracted.countryOfOrigin), evaluation, "countryOfOrigin",
      "Country of origin matches", "Country of origin does not match")

\* DowngradeLoneWarningFailure that leaves the results as they are
KeepWarningFailure(results) == results

\* a government warning that is the only failure is turned into a warning
DowngradeLoneWarningFailure(results) ==
  LET failures == SelectSeq(results, LAMBDA r : r.status = FAIL)
  IN  IF Len(failures) = 1 /\ failures[1].field = "Government Warning"
        THEN LET w == CHOOSE i \in 1..Len(results) :
                        /\ results[i].field = "Government Warning"
                        /\ \A j \in 1..(i - 1) :
                             results[j].field # "Government Warning"
             IN  [results EXCEPT ![w].status = WARN]
        ELSE results

compareLabelsByScores(extracted, expected, evaluation) ==
  DowngradeLoneWarningFailure(ScoredResults(extracted, expected, evaluation))

(***************************************************************************)
(* The comparator on its own: buildVerification (upload/page.tsx) compares *)
(* one extracted record with one expected record and summarises the result *)
(***************************************************************************)
Txt750Oz == << "7","5","0"," ","O","Z" >>
Txt730 == << "7","3","0"," ","M","L" >>
Txt700 == << "7","0","0"," ","M","L" >>
Txt750p05 == << "7","5","0",".","0","5"," ","M","L" >>
Txt40p05 == << "4","0",".","0","5","%" >>
Txt40p5 == << "4","0",".","5","%" >>
Txt42 == << "4","2","%" >>
Txt40Proof == << "4","0","%"," ","(","8","0"," ","P","r","o","o","f",")" >>
TxtAlc40 == << "A","l","c","."," ","4","0","%" >>
TxtProductOfCuba == << "P","r","o","d","u","c","t"," ","o","f"," ","C","u","b","a" >>

\* rum whose expected warning is the short standard wording
ExpRumStandard ==
  [ExpRum EXCEPT !.governmentWarning = Warning(WarningTextShort, TRUE, TRUE)]

CompareExpected == { ExpRum, ExpAle, ExpWine, ExpRumStandard }

\* extracted records: ExtGood with one field read differently, and the
\* sparse records
CompareExtracted ==
  { [ExtGood EXCEPT !.netContents = v] :
      v \in { Field(Txt750), Field(Txt750Oz), Field(Txt750Tight), Field(Txt730),
              Field(Txt700), Field(Txt750p05), Null } }
  \cup { [ExtGood EXCEPT !.alcoholContent = v] :
      v \in { Field(Txt40p05), Field(Txt40p5), Field(Txt42), Field(Txt40Proof),
              Field(TxtAlc40), Field(Txt5), Null } }
  \cup { [ExtGood EXCEPT !.governmentWarning = v] :
      v \in { Warning(TxtWarnBad, TRUE, TRUE),
              Warning(WarningTextMixed, TRUE, FALSE), Null } }
  \cup { [ExtGood EXCEPT !.countryOfOrigin = v] :
      v \in { Field(TxtProductOfCuba), Field(TxtUK), Null } }
  \cup { [ExtGood EXCEPT !.additivesDisclosed = Sulfites], ExtSparse, ExtOther }

\* the evaluation of the revision of compare.ts carries one verdict
AccuracyVerdicts == { [accurate |-> TRUE], [accurate |-> FALSE] }

\* the evaluation of the later revision carries a score per field
ScoredDecisions == { buildDecision(f) : f \in ModelScores }

CompareInputs ==
  [ revision : {"verdict"}, extracted : CompareExtracted,
    expected : CompareExpected, evaluation : AccuracyVerdicts \cup {Null} ]
  \cup
  [ revision : {"scores"}, extracted : CompareExtracted,
    expected : CompareExpected, evaluation : ScoredDecisions \cup {Null} ]

\* compareLabels of the revision the caller was built with
RunCompareLabels(in) ==
  IF in.revision = "verdict"
    THEN compareLabels(in.extracted, in.expected, in.evaluation)
    ELSE compareLabelsByScores(in.extracted, in.expected, in.evaluation)

\* InputsAfterCompare for a comparator that consumed the evaluation
InputsAfterCompareConsumed(in) == [in EXCEPT !.evaluation = Null]

\* the arguments after compareLabels returned: it writes to the result
\* objects it created and to nothing it was given
InputsAfterCompare(in) == in

\* buildVerification: compareLabels, then calculateOverallStatus
Compare(in) ==
  /\ comparison.state = "idle"
  /\ comparison' =
       [ state |-> "compared", given |-> in, inputs |-> InputsAfterCompare(in),
         results |-> RunCompareLabels(in),
         overallStatus |-> calculateOverallStatus(RunCompareLabels(in)),
         again |-> << >> ]
  /\ UNCHANGED << pc, expectedData, ext, candidates, evl, extractionResult, result,
                  scoring, fallback, batch >>

\* the same records are compared a second time
CompareAgain ==
  /\ comparison.state = "compared"
  /\ comparison' =
       [ comparison EXCEPT !.state = "repeated",
                           !.inputs = InputsAfterCompare(comparison.inputs),
                           !.again = RunCompareLabels(comparison.inputs) ]
  /\ UNCHANGED << pc, expectedData, ext, candidates, evl, extractionResult, result,
                  scoring, fallback, batch >>

\* result lists calculateOverallStatus is applied to on its own
MaxResults == 3

SummaryResults ==
  { VerificationResult(field, << >>, << >>, status, Message("")) :
      field \in { "Brand", "Government Warning" }, status \in { PASS, WARN, FAIL } }

SummaryLists == UNION { [1..n -> SummaryResults] : n \in 0..MaxResults }

Summarize(results) ==
  /\ comparison.state = "idle"
  /\ comparison' =
       [ state |-> "summarized", results |-> results,
         overallStatus |-> calculateOverallStatus(results) ]
  /\ UNCHANGED << pc, expectedData, ext, candidates, evl, extractionResult, result,
                  scoring, fallback, batch >>

ComparatorNext ==
  \/ \E in \in CompareInputs : Compare(in)
  \/ CompareAgain
  \/ \E results \in SummaryLists : Summarize(results)

ComparatorSpec == Init /\ [][ComparatorNext]_vars

(***************************************************************************)
(* callWithModelFallback on its own: one invocation, with the runner of    *)
(* runExtractionPass or of runEvaluationPass, and a record of what it did. *)
(* order lists the models of the requests sent in the current pass,        *)
(* answers the responses received in the current pass, sleeps the backoff  *)
(* delays waited so far, timers the delays of the content-policy timers,   *)
(* total the number of requests sent and passes the number of passes over  *)
(* the model list begun.                                                   *)
(***************************************************************************)
\* setTimeout(resolve, 300) in the runner of runExtractionPass
POLICY_RETRY_DELAY_MS == 300

\* a request to a model is in flight
Sent(c) == c.st \in {"call", "retry"}

Returned(c) == c.st \in {"resolved", "rejected"}

\* the runner answers to the response of the request in flight
RunnerResponse(kind, expected, c, outcome) ==
  IF kind = "evaluation" THEN EvaluationResponse(c, expected, outcome)
  ELSE IF c.st = "call" THEN ExtractionFirstResponse(c, outcome)
  ELSE ExtractionRetryResponse(c, outcome)

\* the record of the invocation after a response moved it from f.c to c2
AfterResponse(f, c2, outcome) ==
  [ f EXCEPT !.state = IF Returned(c2) THEN "returned" ELSE "running",
             !.c = c2,
             !.answers = Append(f.answers, outcome),
             !.order = IF Sent(c2) THEN Append(f.order, c2.m) ELSE f.order,
             !.total = IF Sent(c2) THEN f.total + 1 ELSE f.total,
             !.sleeps = IF c2.st = "sleep"
                          THEN Append(f.sleeps, c2.delayMs) ELSE f.sleeps,
             !.timers = IF c2.st = "policyWait"
                          THEN Append(f.timers, POLICY_RETRY_DELAY_MS)
                          ELSE f.timers ]

\* callWithModelFallback is entered and sends the request to the first model
StartFallback(kind, expected) ==
  /\ fallback.state = "idle"
  /\ fallback' =
       [ state |-> "running", kind |-> kind, expected |-> expected,
         c |-> NewCall, order |-> << 1 >>, answers |-> << >>,
         sleeps |-> << >>, timers |-> << >>, total |-> 1, passes |-> 1 ]
  /\ UNCHANGED << pc, expectedData, ext, candidates, evl, extractionResult, result,
                  scoring, comparison, batch >>

\* the response to the request in flight arrives
FallbackResponse(kind, outcome) ==
  /\ fallback.state = "running"
  /\ fallback.kind = kind
  /\ Sent(fallback.c)
  /\ fallback' =
       AfterResponse(fallback,
                     RunnerResponse(fallback.kind, fallback.expected,
                                    fallback.c, outcome),
                     outcome)
  /\ UNCHANGED << pc, expectedData, ext, candidates, evl, extractionResult, result,
                  scoring, comparison, batch >>

\* the content-policy timer fires and the second request is sent
FallbackPolicyTimer ==
  /\ fallback.state = "running"
  /\ fallback.c.st = "policyWait"
  /\ fallback' =
       [ fallback EXCEPT !.c = [fallback.c EXCEPT !.st = "retry"],
                         !.order = Append(fallback.order, fallback.c.m),
                         !.total = fallback.total + 1 ]
  /\ UNCHANGED << pc, expectedData, ext, candidates, evl, extractionResult, result,
                  scoring, comparison, batch >>

\* the backoff timer fires: the next pass sends its first request
FallbackSleepDone ==
  /\ fallback.state = "running"
  /\ fallback.c.st = "sleep"
  /\ fallback' =
       [ fallback EXCEPT !.c = AfterSleep(fallback.c),
                         !.order = << AfterSleep(fallback.c).m >>,
                         !.answers = << >>,
                         !.total = fallback.total + 1,
                         !.passes = fallback.passes + 1 ]
  /\ UNCHANGED << pc, expectedData, ext, candidates, evl, extractionResult, result,
                  scoring, comparison, batch >>

FallbackNext ==
  \/ StartFallback("extraction", Null)
  \/ \E expected \in ExpectedSet : StartFallback("evaluation", expected)
  \/ \E outcome \in ExtractionOutcomes : FallbackResponse("extraction", outcome)
  \/ \E outcome \in EvaluationOutcomes : FallbackResponse("evaluation", outcome)
  \/ FallbackPolicyTimer
  \/ FallbackSleepDone

FallbackSpec == Init /\ [][FallbackNext]_vars

(***************************************************************************)
(* Batch processing of the upload page.  A run starts one extractLabelData *)
(* request per selected file; extractLabelData never rejects (a failed     *)
(* request falls back to mock data), so each request settles exactly once. *)
(* Files are numbered 1..total in the order of the selection.              *)
(***************************************************************************)
MaxFiles == 7

CSV_PARALLEL_LIMIT == 5

Min(a, b) == IF a < b THEN a ELSE b

\* files.slice(i, i + CSV_PARALLEL_LIMIT), i counted from 0
FilesSlice(i, total) == (i + 1)..Min(i + CSV_PARALLEL_LIMIT, total)

\* processImages with a CSV map: processCsvBatch enters its loop with i = 0
\* and maps extractLabelData over the first slice
StartCsvBatch(total) ==
  /\ batch.state = "idle"
  /\ batch' = [ state |-> "running", path |-> "csv", total |-> total, i |-> 0,
                flight |-> FilesSlice(0, total), settled |-> {},
                completed |-> 0, verifications |-> 0 ]
  /\ UNCHANGED << pc, expectedData, ext, candidates, evl, extractionResult, result,
                  scoring, comparison, fallback >>

\* processImages in batch mode without a CSV map: processBatch calls
\* batchExtractLabelData, which maps extractLabelData over all the files
StartBatch(total) ==
  /\ batch.state = "idle"
  /\ batch' = [ state |-> "running", path |-> "form", total |-> total, i |-> 0,
                flight |-> 1..total, settled |-> {},
                completed |-> 0, verifications |-> 0 ]
  /\ UNCHANGED << pc, expectedData, ext, candidates, evl, extractionResult, result,
                  scoring, comparison, fallback >>

\* the extractLabelData request of file k settles, with the response of the
\* server or with the mock data of the catch branch
ExtractLabelDataSettles(k) ==
  /\ batch.state = "running"
  /\ k \in batch.flight
  /\ batch' = [ batch EXCEPT !.flight = batch.flight \ {k},
                             !.settled = batch.settled \cup {k},
                             !.completed = IF batch.path = "csv"
                                             THEN batch.completed + 1
                                             ELSE batch.completed ]
  /\ UNCHANGED << pc, expectedData, ext, candidates, evl, extractionResult, result,
                  scoring, comparison, fallback >>

\* Promise.all of the current slice resolves in processCsvBatch: the results
\* are pushed and the loop goes on with the next slice or returns
CsvBatchResolved ==
  /\ batch.state = "running"
  /\ batch.path = "csv"
  /\ batch.flight = {}
  /\ batch' = IF batch.i + CSV_PARALLEL_LIMIT < batch.total
                THEN [ batch EXCEPT
                         !.i = batch.i + CSV_PARALLEL_LIMIT,
                         !.flight = FilesSlice(batch.i + CSV_PARALLEL_LIMIT, batch.total),
                         !.verifications = Cardinality(batch.settled) ]
                ELSE [ batch EXCEPT !.state = "done",
                                    !.verifications = Cardinality(batch.settled) ]
  /\ UNCHANGED << pc, expectedData, ext, candidates, evl, extractionResult, result,
                  scoring, comparison, fallback >>

\* Promise.all of batchExtractLabelData resolves: processBatch builds one
\* verification per result and returns
BatchResolved ==
  /\ batch.state = "running"
  /\ batch.path = "form"
  /\ batch.flight = {}
  /\ batch' = [ batch EXCEPT !.state = "done",
                             !.verifications = Cardinality(batch.settled) ]
  /\ UNCHANGED << pc, expectedData, ext, candidates, evl, extractionResult, result,
                  scoring, comparison, fallback >>

BatchNext ==
  \/ \E total \in 1..MaxFiles : StartCsvBatch(total)
  \/ \E total \in 1..MaxFiles : StartBatch(total)
  \/ \E k \in 1..MaxFiles : ExtractLabelDataSettles(k)
  \/ CsvBatchResolved
  \/ BatchResolved

BatchSpec == Init /\ [][BatchNext]_vars

(***************************************************************************)
(* Properties                                                              *)
(***************************************************************************)
Live(c) == c.st \in {"call", "policyWait", "retry", "sleep"}

\* an upper bound on the steps invocation c can still take
Rank(c) ==
  IF ~Live(c) THEN 0
  ELSE (RATE_LIMIT_RETRIES - c.attempt) * (3 * NumModels + 1)
         + ( CASE c.st = "call" -> 3 * (NumModels - c.m) + 4
               [] c.st = "policyWait" -> 3 * (NumModels - c.m) + 3
               [] c.st = "retry" -> 3 * (NumModels - c.m) + 2
               [] c.st = "sleep" -> 1 )

CapacityFailure == ErrorResult(429, waitError.message)

\* attempt a is the one whose rejection runExtractionPasses reported
ReportedRejection(a) ==
  /\ ext[a].st = "rejected"
  /\ \A b \in Attempts \ {a} : ext[b].st # "rejected"

C1_State ==
  \A a \in Attempts :
    /\ Live(ext[a]) => /\ ext[a].attempt \in 0..RATE_LIMIT_RETRIES
                       /\ ext[a].m \in 1..NumModels
    /\ (ext[a].st = "rejected" /\ ext[a].allRateLimited) =>
         /\ ext[a].value = waitError
         /\ ReportedRejection(a) =>
              /\ extractionResult = StepError(CapacityFailure)
              /\ result = CapacityFailure

C1_Step ==
  \A a \in Attempts :
    (Live(ext[a]) /\ ext'[a] # ext[a]) => Rank(ext'[a]) < Rank(ext[a])

\* C1: an extraction attempt makes at most RATE_LIMIT_RETRIES + 1 passes
\* over the model list and every step it takes brings it closer to its end;
\* an attempt that saw nothing but rate-limit rejections ends with the
\* "All models are at capacity" error of status 429, and runExtractionPasses
\* then returns a failure of status 429.
C1_RateLimitExhaustionTerminates == [] C1_State /\ [][C1_Step]_vars

C1_Witness ==
  \E a \in Attempts :
    /\ ext[a].st = "rejected" /\ ext[a].allRateLimited
    /\ ReportedRejection(a)
    /\ result = CapacityFailure

\* C2: a request ends with a success result or a structured failure; no
\* exception reaches the caller as a rejected promise.
C2_NoExceptionEscapes == result.kind \in {"pending", "success", "failure"}

\* C3: when one of the two extraction attempts produced a parsed record,
\* runExtractionPasses returns ok with a candidate list holding that record,
\* whatever happened to the other attempt.
C3_PartialExtractionSucceeds ==
  \A a \in Attempts :
    (/\ extractionResult # Pending
     /\ ext[a].st = "resolved" /\ ext[a].value # Null) =>
      /\ extractionResult.kind = "ok"
      /\ \E i \in 1..Len(extractionResult.value) :
           extractionResult.value[i].extracted = ext[a].value

\* C4: when the scoring call of one candidate fails (it throws, or its
\* response cannot be parsed), the request still ends with a success result
\* in which that candidate has evaluation = null.
C4_ScoringFailureTolerated ==
  \A i \in 1..Len(evl) :
    (/\ pc = "done"
     /\ \/ evl[i].st = "rejected"
        \/ evl[i].st = "resolved" /\ evl[i].value = Null) =>
      /\ result.kind = "success"
      /\ candidates[i].evaluation = Null

\* C5 as stated: every failure result has a status among 400, 500, 502, 429.
C5_StatusesAsStated ==
  result.kind = "failure" => result.status \in {400, 500, 502, 429}

\* the error runExtractionPasses caught, when the failure comes from there
CaughtError(e) ==
  \E a \in Attempts : ext[a].st = "rejected" /\ ext[a].value = e

\* C5 (amended): a failure result has status 500 for missing configuration,
\* 400 for a missing image, 502 for a storage failure, for no extracted data
\* and for an upstream error that carries no status, 429 for exhausted
\* capacity, and otherwise the status the upstream error itself carries.
C5_FailureStatuses ==
  result.kind = "failure" =>
    \/ result = ErrorResult(500, "Missing Azure OpenAI configuration")
    \/ result = ErrorResult(400, "Image file is required")
    \/ result = ErrorResult(502, "Failed to upload image to storage")
    \/ result = ErrorResult(502, "Failed to create read URL for image")
    \/ result = ErrorResult(502, "No label data extracted")
    \/ /\ result = CapacityFailure
       /\ CaughtError(waitError)
    \/ \E e \in ErrorSet :
         /\ CaughtError(e)
         /\ ~isRateLimitError(e)
         /\ result.error = e.message
         /\ result.status = IF e.status # NoStatus THEN e.status ELSE 502

C5_Witness ==
  /\ result.kind = "failure"
  /\ result.status = ErrUnavailable.status
  /\ CaughtError(ErrUnavailable)

\* C6: every field of the label returned by mergeCandidates is the value of
\* that field in the extracted record of some candidate.
C6_MergedValuesComeFromCandidates ==
  (result.kind = "success" /\ expectedData # Null) =>
    \A key \in FieldKeySet :
      \E i \in 1..Len(candidates) :
        result.label[key] = candidates[i].extracted[key]

\* a merged label that is no single candidate's record
C6_Witness ==
  /\ result.kind = "success" /\ expectedData # Null
  /\ \A i \in 1..Len(candidates) : result.label # candidates[i].extracted
  /\ \E key \in FieldKeySet : result.label[key] # Null

BeerRecords ==
  { [e EXCEPT !.productType = "beer", !.classType = Field(c)] :
      e \in AllExpected, c \in { TxtIpa, TxtRum, TxtRedWine, TxtPaleAle } }

BeerNeverChecked == \A e \in BeerRecords : ~shouldCheckAlcoholContent(e)

\* C7: for an expected record with productType = beer,
\* shouldCheckAlcoholContent is false and the merged decision scores
\* alcoholContent 1, whatever the candidates hold.
C7_BeerAlcoholContentPasses ==
  /\ BeerNeverChecked
  /\ (expectedData # Null /\ expectedData.productType = "beer") =>
       /\ ~EvaluationFlagsTable[expectedData].includeAlcohol
       /\ result.kind = "success" =>
            result.evaluation.fields["alcoholContent"] = 1

C7_Witness ==
  /\ expectedData # Null /\ expectedData.productType = "beer"
  /\ result.kind = "success"
  /\ Len(candidates) = 2
  /\ candidates[1].evaluation = Null
  /\ candidates[2].evaluation # Null
  /\ candidates[2].extracted["alcoholContent"] = Null

DomesticRecords ==
  { [e EXCEPT !.isImported = FALSE, !.countryOfOrigin = c] :
      e \in AllExpected, c \in { Null, Field(TxtUK), Field(TxtCuba) } }

DomesticNeverChecked == \A e \in DomesticRecords : ~shouldCheckCountryOfOrigin(e)

\* C8: for an expected record with isImported = false,
\* shouldCheckCountryOfOrigin is false and the merged decision scores
\* countryOfOrigin 1, whatever the candidates hold.
C8_DomesticCountryPasses ==
  /\ DomesticNeverChecked
  /\ (expectedData # Null /\ ~expectedData.isImported) =>
       /\ ~EvaluationFlagsTable[expectedData].includeCountry
       /\ result.kind = "success" =>
            result.evaluation.fields["countryOfOrigin"] = 1

C8_Witness ==
  /\ expectedData # Null /\ ~expectedData.isImported
  /\ expectedData.countryOfOrigin # Null
  /\ result.kind = "success"
  /\ \E i \in 1..Len(candidates) : candidates[i].evaluation = Null
  /\ \A i \in 1..Len(candidates) : candidates[i].extracted["countryOfOrigin"] = Null

PassedIsConjunction(decision) ==
  /\ DOMAIN decision.fields = FieldKeySet
  /\ decision.passed <=> \A k \in FieldKeySet : decision.fields[k] = 1

\* C9: in every decision of a request (what runEvaluationPass returned, what
\* a candidate carries, what mergeCandidates returned) passed is true exactly
\* when all eight field scores are 1.
C9_PassedIsConjunction ==
  /\ \A i \in 1..Len(evl) :
       (evl[i].st = "resolved" /\ evl[i].value # Null) =>
         PassedIsConjunction(evl[i].value)
  /\ \A i \in 1..Len(candidates) :
       candidates[i].evaluation # Null =>
         PassedIsConjunction(candidates[i].evaluation)
  /\ (result.kind = "success" /\ result.evaluation # Null) =>
       PassedIsConjunction(result.evaluation)

\* a candidate that did not pass beside a merged decision that did
C9_Witness ==
  /\ result.kind = "success" /\ result.evaluation # Null
  /\ result.evaluation.passed
  /\ \E i \in 1..Len(candidates) :
       /\ candidates[i].evaluation # Null
       /\ ~candidates[i].evaluation.passed
       /\ \E k \in FieldKeySet : candidates[i].evaluation.fields[k] = 1

OutOfScope(expected, key) ==
  \/ key = "alcoholContent" /\ ~shouldCheckAlcoholContent(expected)
  \/ key = "countryOfOrigin" /\ ~shouldCheckCountryOfOrigin(expected)
  \/ key = "additivesDisclosed" /\ ~shouldCheckAdditives(expected)

\* C10: a non-null decision returned by runEvaluationPass scores 1 every
\* optional field that is out of scope for the expected record and carries
\* the model's score for every other field.
C10_OutOfScopeForcedToOne ==
  (scoring.state = "scored" /\ scoring.decision # Null) =>
    \A key \in FieldKeySet :
      scoring.decision.fields[key] =
        IF OutOfScope(scoring.expected, key) THEN 1 ELSE scoring.parsed[key]

C10_Witness ==
  /\ scoring.state = "scored" /\ scoring.decision # Null
  /\ \A key \in { "alcoholContent", "countryOfOrigin", "additivesDisclosed" } :
       OutOfScope(scoring.expected, key) /\ scoring.parsed[key] = 0
  /\ scoring.parsed["brandName"] = 0
  /\ scoring.decision.fields["brandName"] = 0

\* mergeCandidates produced the result of the request
MergerRan == result.kind = "success" /\ expectedData # Null

\* candidates i and j have the same similarity for field key
SameSimilarity(key, i, j) ==
  LET c == FieldContenders(candidates, expectedData, key)
  IN  RatEq(c[i].similarity, c[j].similarity)

\* the array position of the candidate mergeCandidates read field key from
SelectedPosition(key) == BestContender(candidates, expectedData, key).index + 1

\* C11 as stated: of two candidates with the same similarity for a field the
\* one with the lower index is selected for that field.
C11_LowerIndexOnEqualSimilarity ==
  MergerRan =>
    \A key \in FieldKeySet :
      \A i, j \in 1..Len(candidates) :
        (candidates[i].index < candidates[j].index /\ SameSimilarity(key, i, j)) =>
          /\ SelectedPosition(key) # j
          /\ result.label[key] = candidates[i].extracted[key]

\* contender i of field key is in the pool selectContender reduces
InPool(key, i) ==
  LET c == FieldContenders(candidates, expectedData, key)
  IN  HasAccurate(c) => c[i].score = 1

\* C11 (amended): of two candidates of the pool of a field that have the
\* same similarity and are both null or both non-null for the field, the one
\* with the lower index is selected; when only one of the two has a value,
\* that one is preferred whatever its index.
C11_TieBreakOrder ==
  MergerRan =>
    \A key \in FieldKeySet :
      \A i, j \in 1..Len(candidates) :
        (/\ i # j
         /\ InPool(key, i) /\ InPool(key, j)
         /\ SameSimilarity(key, i, j)) =>
          LET iHas == candidates[i].extracted[key] # Null
              jHas == candidates[j].extracted[key] # Null
          IN  /\ (iHas = jHas /\ candidates[i].index < candidates[j].index) =>
                   /\ SelectedPosition(key) # j
                   /\ result.label[key] = candidates[i].extracted[key]
              /\ (iHas /\ ~jHas) => SelectedPosition(key) # j

\* two pooled candidates tie on a field they spell differently, and the
\* merged label carries the spelling of the first
C11_Witness ==
  /\ MergerRan
  /\ Len(candidates) = 2
  /\ \E key \in FieldKeySet :
       /\ InPool(key, 1) /\ InPool(key, 2)
       /\ SameSimilarity(key, 1, 2)
       /\ candidates[1].extracted[key] # Null
       /\ candidates[2].extracted[key] # Null
       /\ candidates[1].extracted[key] # candidates[2].extracted[key]
       /\ result.label[key] = candidates[1].extracted[key]

\* the score candidate i counts with for field key: its evaluation's score,
\* or without an evaluation 1 for an out-of-scope field and 0 otherwise
CountedScore(i, key) ==
  IF candidates[i].evaluation # Null THEN candidates[i].evaluation.fields[key]
  ELSE IF OutOfScope(expectedData, key) THEN 1 ELSE 0

\* C12: the merged score of a field is 1 exactly when some candidate scored
\* the field 1, a candidate without an evaluation counting as 0 on every
\* field but the out-of-scope ones, where it counts as 1.
C12_MergedScoreIsAnyCandidate ==
  MergerRan =>
    \A key \in FieldKeySet :
      /\ result.evaluation.fields[key] \in {0, 1}
      /\ result.evaluation.fields[key] = 1 <=>
           \E i \in 1..Len(candidates) : CountedScore(i, key) = 1

\* one candidate scored a field 1, the other scored it 0, and a candidate
\* without an evaluation sits beside one with an evaluation
C12_Witness ==
  /\ MergerRan
  /\ Len(candidates) = 2
  /\ candidates[1].evaluation = Null
  /\ candidates[2].evaluation # Null
  /\ \E key \in FieldKeySet :
       /\ CountedScore(1, key) = 0 /\ CountedScore(2, key) = 1
       /\ result.evaluation.fields[key] = 1
  /\ \E key \in FieldKeySet :
       /\ CountedScore(1, key) = 0 /\ CountedScore(2, key) = 0
       /\ result.evaluation.fields[key] = 0
  /\ \E key \in FieldKeySet :
       /\ OutOfScope(expectedData, key) /\ CountedScore(1, key) = 1
       /\ result.evaluation.fields[key] = 1

\* the attempts that have resolved with a parsed record, in attempt order
ParsedAttempts(e) ==
  SelectSeq([a \in Attempts |-> a],
            LAMBDA a : e[a].st = "resolved" /\ e[a].value # Null)

\* one candidate per parsed attempt
ParsedCandidates(e) ==
  [ i \in 1..Len(ParsedAttempts(e)) |->
      [ extracted |-> e[ParsedAttempts(e)[i]].value,
        evaluation |-> Null,
        index |-> ParsedAttempts(e)[i] - 1 ] ]

NoDataFailure == StepError(ErrorResult(502, "No label data extracted"))

\* the step in which runExtractionPasses returns
ExtractionReturns == extractionResult = Pending /\ extractionResult' # Pending

C13_Step ==
  ExtractionReturns =>
    /\ ParsedCandidates(ext') # << >> =>
         extractionResult' = StepOk(ParsedCandidates(ext'))
    /\ extractionResult' = NoDataFailure <=>
         \A a \in Attempts : ext'[a].st = "resolved" /\ ext'[a].value = Null

\* C13: both extraction attempts are started together, and when
\* runExtractionPasses returns, in whatever order the attempts completed, it
\* returns exactly the attempts that produced a parsed record, in attempt
\* order, each with evaluation = null and its zero-based attempt number as
\* index; it returns "No label data extracted" exactly when both attempts
\* completed without a parsed record.
C13_ExactlyTheParsedAttempts ==
  [][ /\ (pc # "extracting" /\ pc' = "extracting") =>
           \A a \in Attempts : ext[a] = NotStarted /\ ext'[a] = NewCall
      /\ C13_Step ]_vars

\* C14: a payload that is absent, is not JSON or fails validation parses to
\* no expected record, and a request without an expected record does not
\* fail for it: both extraction attempts are started, no scoring call is
\* ever made, and once runExtractionPasses returns candidates the result is
\* a success with evaluation = null. A request (with valid configuration)
\* whose image is missing fails with status 400 before any model call.
C14_State ==
  /\ \A raw \in ExpectedPayloads :
       raw.kind # "valid" => parseExpectedData(raw) = Null
  /\ getImageFromFormData(FALSE) =
       StepError(ErrorResult(400, "Image file is required"))
  /\ (expectedData = Null /\ pc # "start") =>
       /\ evl = << >>
       /\ \A i \in 1..Len(candidates) : candidates[i].evaluation = Null
       /\ extractionResult.kind = "ok" =>
            /\ result.kind = "success"
            /\ result.evaluation = Null
  /\ (result.kind = "failure" /\ result.status = 400
        /\ result.error = "Image file is required") =>
       /\ \A a \in Attempts : ext[a] = NotStarted
       /\ evl = << >>

C14_Step ==
  /\ (pc = "start" /\ pc' = "done") =>
       result' \in { ErrorResult(500, "Missing Azure OpenAI configuration"),
                     ErrorResult(400, "Image file is required") }
  /\ (expectedData' = Null /\ pc # "extracting" /\ pc' = "extracting") =>
       \A a \in Attempts : ext'[a] = NewCall

C14_MalformedExpectedDataIsNotFatal == [] C14_State /\ [][C14_Step]_vars

\* a request without an expected record has ended in success after both
\* attempts ran
C14_Witness ==
  /\ expectedData = Null /\ pc = "done"
  /\ result.kind = "success" /\ result.evaluation = Null
  /\ \A a \in Attempts : ext[a].st = "resolved"
  /\ Len(candidates) = 1

\* C20: when some candidate scored a field 1, the candidate whose value the
\* merged label takes for that field is one that scored it 1, whatever the
\* similarity of the others; when none did, the choice is the best of all
\* candidates by similarity.
C20_SelectedFromAccurateCandidates ==
  MergerRan =>
    \A key \in FieldKeySet :
      LET c == FieldContenders(candidates, expectedData, key)
          sel == SelectedPosition(key)
      IN  /\ sel \in 1..Len(candidates)
          /\ result.label[key] = candidates[sel].extracted[key]
          /\ (\E i \in 1..Len(candidates) : CountedScore(i, key) = 1) =>
               CountedScore(sel, key) = 1
          /\ (\A i \in 1..Len(candidates) : CountedScore(i, key) = 0) =>
               \A i \in 1..Len(candidates) :
                 ~RatLess(c[sel].similarity, c[i].similarity)

\* the merged label takes a field from the candidate that scored it 1 although
\* the other candidate, which scored it 0, is the more similar one
C20_Witness ==
  /\ MergerRan
  /\ \E key \in FieldKeySet :
       \E i, j \in 1..Len(candidates) :
         LET c == FieldContenders(candidates, expectedData, key)
         IN  /\ CountedScore(i, key) = 1 /\ CountedScore(j, key) = 0
             /\ RatLess(c[i].similarity, c[j].similarity)
             /\ result.label[key] = candidates[i].extracted[key]
             /\ result.label[key] # candidates[j].extracted[key]

\* compareLabels has been applied to comparison.given
Compared == comparison.state \in { "compared", "repeated" }

IsWarning(r) == r.field = "Government Warning"

\* the government warning is the one failure of the list, all else passes
LoneWarningFailure(results) ==
  /\ \E i \in 1..Len(results) : IsWarning(results[i]) /\ results[i].status = FAIL
  /\ \A i \in 1..Len(results) :
       IF IsWarning(results[i]) THEN results[i].status = FAIL
       ELSE results[i].status = PASS

\* C15: when the government warning is the only result of a label that
\* fails and every other result passes, compareLabels (the revision with the
\* per-field scores) returns the government warning as a warning, every other
\* result as it was, and the overall status of the label is Warn.
C15_LoneWarningFailureDowngraded ==
  (Compared /\ comparison.given.revision = "scores") =>
    LET in == comparison.given
        before == ScoredResults(in.extracted, in.expected, in.evaluation)
    IN  LoneWarningFailure(before) =>
          /\ Len(comparison.results) = Len(before)
          /\ \A i \in 1..Len(before) :
               comparison.results[i] =
                 IF IsWarning(before[i]) THEN [before[i] EXCEPT !.status = WARN]
                 ELSE before[i]
          /\ comparison.overallStatus = WARN

C15_Witness ==
  /\ Compared /\ comparison.given.revision = "scores"
  /\ LoneWarningFailure(ScoredResults(comparison.given.extracted,
                                      comparison.given.expected,
                                      comparison.given.evaluation))
  /\ Len(comparison.results) > 1
  /\ comparison.overallStatus = WARN

\* C16: the overall status is Fail when some result fails, otherwise Warn
\* when some result warns, otherwise Pass, the empty list included.
C16_OverallStatus ==
  comparison.state # "idle" =>
    LET statuses == { comparison.results[i].status :
                        i \in 1..Len(comparison.results) }
    IN  /\ comparison.overallStatus = FAIL <=> FAIL \in statuses
        /\ comparison.overallStatus = WARN <=>
             (FAIL \notin statuses /\ WARN \in statuses)
        /\ comparison.overallStatus = PASS <=> statuses \subseteq { PASS }

\* a list with a warning ahead of a failure
C16_Witness ==
  /\ comparison.state = "summarized"
  /\ Len(comparison.results) = MaxResults
  /\ comparison.results[1].status = WARN
  /\ comparison.results[2].status = FAIL
  /\ comparison.results[3].status = PASS
  /\ comparison.overallStatus = FAIL

\* the status the net-contents rule gives two texts
NetContentsStatus(extractedText, expectedText) ==
  LET extractedNum == parseFloat(NumericChars(extractedText))
      expectedNum == parseFloat(NumericChars(expectedText))
  IN  IF UnitOf(extractedText) # UnitOf(expectedText) THEN FAIL
      ELSE IF DifferenceBelow(extractedNum, expectedNum, << 1, 10 >>) THEN PASS
      ELSE IF DifferenceBelow(extractedNum, expectedNum,
                << 5 * expectedNum.num, 100 * expectedNum.den >>) THEN WARN
      ELSE FAIL

\* C17: the Net Contents result compareLabels returns is Fail when the units
\* of the two texts differ, whatever the numbers; with equal units it is Pass
\* for a difference below 0.1, Warn for one below 5% of the expected number
\* and Fail otherwise.
C17_NetContentsByUnitAndNumber ==
  (Compared /\ comparison.given.revision = "verdict") =>
    \A i \in 1..Len(comparison.results) :
      comparison.results[i].field = "Net Contents" =>
        comparison.results[i].status =
          NetContentsStatus(TextOf(comparison.given.extracted.netContents),
                            comparison.given.expected.netContents.text)

\* C18: the alcohol-content comparison of two texts that both hold a number
\* gives Pass when the leading numbers of the two differ by less than 0.1,
\* Warn when they differ by at least 0.1 and less than 1, Fail otherwise.
C18_AlcoholContentByLeadingNumber ==
  (/\ Compared /\ comparison.given.revision = "verdict"
   /\ comparison.given.expected.alcoholContent # Null) =>
    LET extracted == comparison.given.extracted.alcoholContent
        expected == comparison.given.expected.alcoholContent
        extractedNum == parseAbv(TextOf(extracted))
        expectedNum == parseAbv(expected.text)
    IN  (extractedNum.ok /\ expectedNum.ok) =>
          compareAlcoholContent(extracted, expected).status =
            IF DifferenceBelow(extractedNum, expectedNum, << 1, 10 >>) THEN PASS
            ELSE IF DifferenceBelow(extractedNum, expectedNum, << 1, 1 >>) THEN WARN
            ELSE FAIL

Precedes(key, s, i) ==
  LET c == FieldContenders(candidates, expectedData, key)
  IN  \/ RatLess(c[i].similarity, c[s].similarity)
      \/ /\ RatEq(c[s].similarity, c[i].similarity)
         /\ c[s].hasValue /\ ~c[i].hasValue
      \/ /\ RatEq(c[s].similarity, c[i].similarity)
         /\ c[s].hasValue = c[i].hasValue
         /\ candidates[s].index < candidates[i].index

\* C21: the candidate selected for a field belongs to the pool of the field
\* and comes before every other candidate of the pool: it has the higher
\* similarity, or the same similarity and a non-null value where the other
\* has null, or the same similarity, the same kind of value and the lower
\* attempt index (candidate.index); the merged label carries its value.
C21_SelectedIsFirstOfPool ==
  MergerRan =>
    \A key \in FieldKeySet :
      /\ SelectedPosition(key) \in 1..Len(candidates)
      /\ InPool(key, SelectedPosition(key))
      /\ result.label[key] = candidates[SelectedPosition(key)].extracted[key]
      /\ \A i \in 1..Len(candidates) :
           (i # SelectedPosition(key) /\ InPool(key, i)) =>
             Precedes(key, SelectedPosition(key), i)

\* each of the three criteria decides a selection: a later candidate wins on
\* similarity, and a later candidate with a value wins over an earlier one
\* without on equal similarity
C21_Witness ==
  /\ MergerRan
  /\ Len(candidates) = 2
  /\ \E key \in FieldKeySet :
       LET c == FieldContenders(candidates, expectedData, key)
       IN  /\ InPool(key, 1) /\ InPool(key, 2)
           /\ RatEq(c[1].similarity, c[2].similarity)
           /\ ~c[1].hasValue /\ c[2].hasValue
           /\ SelectedPosition(key) = 2
           /\ result.label[key] = candidates[2].extracted[key]
  /\ \E key \in FieldKeySet :
       LET c == FieldContenders(candidates, expectedData, key)
       IN  /\ InPool(key, 1) /\ InPool(key, 2)
           /\ RatLess(c[1].similarity, c[2].similarity)
           /\ SelectedPosition(key) = 2

(***************************************************************************)
(* callWithModelFallback: order of the calls, backoff, retries             *)
(***************************************************************************)
FallbackRan == fallback.state \in { "running", "returned" }

\* the response was a rate-limit rejection
RateLimited(outcome) == ~outcome.ok /\ isRateLimitError(outcome.error)

\* the response was a content-policy rejection
PolicyRejected(outcome) ==
  ~outcome.ok /\ ErrorCode(outcome.error) = "content_policy_violation"

\* the position in the current pass of the last request sent to model m
LastRequestTo(m) ==
  CHOOSE i \in 1..Len(fallback.order) :
    /\ fallback.order[i] = m
    /\ \A j \in (i + 1)..Len(fallback.order) : fallback.order[j] # m

\* every model of the list was called in the current pass and the last
\* response of each was a rate-limit rejection
EveryModelRateLimited ==
  /\ Len(fallback.answers) = Len(fallback.order)
  /\ \A m \in 1..NumModels :
       /\ \E i \in 1..Len(fallback.order) : fallback.order[i] = m
       /\ RateLimited(fallback.answers[LastRequestTo(m)])

\* min(2000 * 2^k, 15000) for k = 0, 1, 2, 3
StatedSleeps == << 2000, 4000, 8000, 15000 >>

\* C22: within a pass the requests go to the models in list order, starting
\* with the first model; the invocation sleeps only when every model of the
\* pass was rate-limited; the sleeps last 2000, 4000, 8000 and 15000 ms in
\* this order; there are at most RATE_LIMIT_RETRIES = 4 of them, and none
\* after the fifth pass.
C22_PassesAndBackoff ==
  FallbackRan =>
    /\ fallback.order[1] = 1
    /\ \A i \in 1..(Len(fallback.order) - 1) :
         fallback.order[i + 1] \in { fallback.order[i], fallback.order[i] + 1 }
    /\ \A i \in 1..Len(fallback.order) : fallback.order[i] \in 1..NumModels
    /\ fallback.c.st = "sleep" => EveryModelRateLimited
    /\ Len(fallback.sleeps) <= RATE_LIMIT_RETRIES
    /\ fallback.sleeps = SubSeq(StatedSleeps, 1, Len(fallback.sleeps))
    /\ fallback.passes =
         IF fallback.c.st = "sleep" THEN Len(fallback.sleeps)
         ELSE Len(fallback.sleeps) + 1
    /\ fallback.passes = RATE_LIMIT_RETRIES + 1 => fallback.c.st # "sleep"

\* five passes were made with the four sleeps between them, and the
\* invocation ended with the capacity error
C22_Witness ==
  /\ fallback.state = "returned"
  /\ fallback.passes = RATE_LIMIT_RETRIES + 1
  /\ fallback.sleeps = StatedSleeps
  /\ EveryModelRateLimited
  /\ fallback.c.st = "rejected"
  /\ fallback.c.value = waitError

\* the response that has just arrived
LastAnswer(f) == f.answers[Len(f.answers)]

\* a response has arrived in this step
Answered ==
  /\ fallback.state = "running"
  /\ fallback'.state \in { "running", "returned" }
  /\ Len(fallback'.answers) = Len(fallback.answers) + 1

\* an error the invocation has no retry for
OtherError(outcome) ==
  ~outcome.ok /\ ~RateLimited(outcome) /\ ~PolicyRejected(outcome)

C23_Step ==
  /\ (Answered /\ OtherError(LastAnswer(fallback'))) =>
       /\ fallback'.state = "returned"
       /\ fallback'.c.st = "rejected"
       /\ fallback'.c.value = LastAnswer(fallback').error
       /\ fallback'.total = fallback.total
       /\ fallback'.order = fallback.order
       /\ fallback'.sleeps = fallback.sleeps
       /\ fallback'.timers = fallback.timers
  /\ fallback.state = "returned" => fallback' = fallback

\* C23: when a response is an error that is neither a rate-limit nor a
\* content-policy rejection, the invocation ends in the same step, rejected
\* with that very error: no request to another model, no timer and no sleep
\* follows, and nothing happens after it has ended.
C23_OtherErrorsPropagateAtOnce == [][C23_Step]_vars

\* such an error ended an invocation whose model list still had a model to
\* fall back to
C23_Witness ==
  /\ fallback.state = "returned"
  /\ OtherError(LastAnswer(fallback))
  /\ fallback.c.st = "rejected"
  /\ fallback.c.value = LastAnswer(fallback).error
  /\ fallback.order[Len(fallback.order)] < NumModels
  /\ fallback.total = Len(fallback.order)

(***************************************************************************)
(* The content-policy retry of runExtractionPass                           *)
(***************************************************************************)
\* the number of requests sent to model m in the current pass
RequestsTo(f, m) ==
  Cardinality({ i \in 1..Len(f.order) : f.order[i] = m })

ExtractionFallbackRan == FallbackRan /\ fallback.kind = "extraction"

C24_State ==
  ExtractionFallbackRan =>
    /\ \A m \in 1..NumModels : RequestsTo(fallback, m) <= 2
    /\ \A i \in 1..Len(fallback.timers) : fallback.timers[i] = 300
    /\ fallback.c.st = "policyWait" =>
         /\ PolicyRejected(LastAnswer(fallback))
         /\ RequestsTo(fallback, fallback.c.m) = 1
    /\ fallback.c.st = "retry" =>
         /\ PolicyRejected(LastAnswer(fallback))
         /\ fallback.order[Len(fallback.order)] = fallback.c.m
         /\ RequestsTo(fallback, fallback.c.m) = 2

C24_Step ==
  (fallback.state = "running" /\ fallback.kind = "extraction") =>
    \* a content-policy rejection of the first request starts the timer
    /\ (Answered /\ fallback.c.st = "call"
           /\ PolicyRejected(LastAnswer(fallback'))) =>
         /\ fallback'.c.st = "policyWait"
         /\ fallback'.c.m = fallback.c.m
         /\ fallback'.timers = Append(fallback.timers, 300)
         /\ fallback'.total = fallback.total
    \* the timer sends the second request, to the same model
    /\ (fallback.c.st = "policyWait" /\ fallback' # fallback) =>
         /\ fallback'.c.st = "retry"
         /\ fallback'.c.m = fallback.c.m
         /\ fallback'.total = fallback.total + 1
         /\ fallback'.order = Append(fallback.order, fallback.c.m)
    \* whatever answers the second request, the model is not called again
    \* in this pass
    /\ (Answered /\ fallback.c.st = "retry") =>
         /\ fallback'.c.st \notin { "policyWait", "retry" }
         /\ fallback'.timers = fallback.timers
         /\ RequestsTo(fallback', fallback.c.m) = 2
         /\ fallback'.c.st = "call" => fallback'.c.m = fallback.c.m + 1
         /\ (LastAnswer(fallback').ok \/ OtherError(LastAnswer(fallback'))
               \/ PolicyRejected(LastAnswer(fallback'))) =>
              fallback'.state = "returned"

\* C24: in an extraction attempt a content-policy rejection of a model is
\* followed by a 300 ms timer and then by exactly one more request to the
\* same model; whatever answers that second request, the model is not
\* called again in the pass, so no model gets more than two requests in one
\* pass over the list.
C24_OneRetryAfterContentPolicy == [] C24_State /\ [][C24_Step]_vars

\* the second request to a model was answered by a content-policy rejection
\* again, and the attempt ended with it
C24_Witness ==
  /\ fallback.state = "returned"
  /\ fallback.kind = "extraction"
  /\ Len(fallback.answers) >= 2
  /\ PolicyRejected(LastAnswer(fallback))
  /\ PolicyRejected(fallback.answers[Len(fallback.answers) - 1])
  /\ RequestsTo(fallback, fallback.order[Len(fallback.order)]) = 2
  /\ fallback.c.st = "rejected"
  /\ fallback.c.value = LastAnswer(fallback).error

(***************************************************************************)
(* callWithModelFallback: return on success, number of calls               *)
(***************************************************************************)
\* what the invocation returns for a successful response
ReturnedFor(f, outcome) ==
  IF f.kind = "evaluation" THEN EvaluationResult(f.expected, outcome.parsed)
  ELSE outcome.parsed

C30_State ==
  FallbackRan =>
    /\ fallback.passes <= 5
    /\ fallback.total <= 5 * NumModels + Len(fallback.timers)
    /\ Len(fallback.timers) <= 5 * NumModels
    /\ fallback.kind = "evaluation" => fallback.timers = << >>
    /\ fallback.c.st = "resolved" =>
         /\ LastAnswer(fallback).ok
         /\ fallback.c.value = ReturnedFor(fallback, LastAnswer(fallback))

C30_Step ==
  /\ (Answered /\ LastAnswer(fallback').ok) =>
       /\ fallback'.state = "returned"
       /\ fallback'.c.st = "resolved"
       /\ fallback'.total = fallback.total
       /\ fallback'.sleeps = fallback.sleeps
       /\ fallback'.timers = fallback.timers
  /\ fallback.state = "returned" =>
       /\ fallback'.total = fallback.total
       /\ fallback'.sleeps = fallback.sleeps
       /\ fallback'.c = fallback.c

\* C30: a successful response ends the invocation in the same step, which
\* returns the result of that response and sends no request and starts no
\* sleep afterwards; an invocation makes at most 5 passes over the model
\* list and sends at most 5 * NumModels requests, plus one for each
\* content-policy retry, of which an extraction attempt has at most
\* 5 * NumModels and a scoring attempt none.
C30_SuccessReturnsAndCallsAreBounded == [] C30_State /\ [][C30_Step]_vars

\* an extraction attempt sent twice 5 * NumModels requests and the last of
\* them succeeded
C30_Witness ==
  /\ fallback.state = "returned"
  /\ fallback.kind = "extraction"
  /\ fallback.passes = 5
  /\ fallback.total = 2 * 5 * NumModels
  /\ fallback.c.st = "resolved"
  /\ LastAnswer(fallback).ok
  /\ fallback.c.value = LastAnswer(fallback).parsed
  /\ fallback.c.value # Null

(***************************************************************************)
(* evaluateCandidates                                                      *)
(***************************************************************************)
\* evaluateCandidates was called with an expected record
EvaluationStarted ==
  expectedData # Null /\ extractionResult.kind = "ok" /\ evl # << >>

\* C25: with an expected record, once the request has ended every candidate
\* whose scoring call resolved carries the result of that call in its
\* evaluation field, whatever the order in which the scoring calls ended and
\* whatever the candidate's index; with no expected record every evaluation
\* field is still null.
C25_EvaluationWrittenOnce ==
  /\ (pc = "done" /\ EvaluationStarted) =>
       \A i \in 1..Len(candidates) :
         evl[i].st = "resolved" => candidates[i].evaluation = evl[i].value
  /\ (expectedData = Null \/ ~EvaluationStarted) =>
       \A i \in 1..Len(candidates) : candidates[i].evaluation = Null

(***************************************************************************)
(* A request without an expected record                                    *)
(***************************************************************************)
\* candidate i has fewer null fields than candidate j, or as many and the
\* lower index
FewerMissing(i, j) ==
  \/ countMissingFields(candidates[i].extracted)
       < countMissingFields(candidates[j].extracted)
  \/ /\ countMissingFields(candidates[i].extracted)
          = countMissingFields(candidates[j].extracted)
     /\ candidates[i].index < candidates[j].index

\* C27: in a request without an expected record no scoring call is started
\* and no candidate gets an evaluation; the label returned is the extracted
\* record of the candidate with the fewest null fields, the lowest index
\* among those, and the evaluation returned is null.
C27_NoExpectedRecord ==
  expectedData = Null =>
    /\ evl = << >>
    /\ \A i \in 1..Len(candidates) : candidates[i].evaluation = Null
    /\ result.kind = "success" =>
         /\ result.evaluation = Null
         /\ \E i \in 1..Len(candidates) :
              /\ result.label = candidates[i].extracted
              /\ \A j \in 1..Len(candidates) : j # i => FewerMissing(i, j)

\* two different records with the same number of null fields: the first is
\* returned
C27_Witness ==
  /\ expectedData = Null
  /\ result.kind = "success"
  /\ Len(candidates) = 2
  /\ candidates[1].extracted # candidates[2].extracted
  /\ countMissingFields(candidates[1].extracted)
       = countMissingFields(candidates[2].extracted)
  /\ result.label = candidates[1].extracted
  /\ result.evaluation = Null
  /\ evl = << >>

(***************************************************************************)
(* shouldCheckAlcoholContent                                               *)
(***************************************************************************)
\* the class/type text of record e contains the keyword, in any case
ClassTextContains(e, keyword) ==
  includes(toLowerCase(getTextValue(e.classType)), keyword)

\* the first number of the alcohol-content text of record e is below 7
LeadingNumberBelowSeven(e) ==
  /\ parseAbv(getTextValue(e.alcoholContent)).ok
  /\ parseAbv(getTextValue(e.alcoholContent)).num
       < 7 * parseAbv(getTextValue(e.alcoholContent)).den

\* the value the rule gives for record e
StatedAlcoholCheck(e) ==
  IF e.productType = "beer"
       \/ \E keyword \in BEER_CLASS_KEYWORDS : ClassTextContains(e, keyword)
    THEN FALSE
  ELSE IF (e.productType = "wine"
             \/ ClassTextContains(e, << "w","i","n","e" >>))
          /\ LeadingNumberBelowSeven(e)
    THEN FALSE
  ELSE getTextValue(e.alcoholContent) # << >>

\* C28: for the expected record a candidate was scored against,
\* shouldCheckAlcoholContent is false for a beer (by product type or by a
\* beer keyword in the class/type text), false for a wine (by product type
\* or by "wine" in the class/type text) whose alcohol-content text has a
\* first number below 7, and otherwise true exactly when the
\* alcohol-content text is not empty; the includeAlcohol flag of the scoring
\* is that value.
C28_AlcoholContentInScope ==
  scoring.state = "scored" =>
    /\ shouldCheckAlcoholContent(scoring.expected)
         = StatedAlcoholCheck(scoring.expected)
    /\ getEvaluationFlags(scoring.expected).includeAlcohol
         = StatedAlcoholCheck(scoring.expected)

\* a wine whose alcohol text has no number is in scope, and the score 0 of
\* its alcohol content is kept
C28_Witness ==
  /\ scoring.state = "scored"
  /\ scoring.expected.productType = "wine"
  /\ getTextValue(scoring.expected.alcoholContent) # << >>
  /\ ~parseAbv(getTextValue(scoring.expected.alcoholContent)).ok
  /\ shouldCheckAlcoholContent(scoring.expected)
  /\ scoring.parsed # Null
  /\ scoring.parsed["alcoholContent"] = 0
  /\ scoring.decision.fields["alcoholContent"] = 0

(***************************************************************************)
(* Regulatory rules in the result list                                     *)
(***************************************************************************)
\* additive k is expected and the extracted record does not disclose it
UndisclosedAdditive(in, k) ==
  /\ in.expected.additivesDetected[ADDITIVE_KEYS[k]]
  /\ ~( in.extracted.additivesDisclosed # Null
        /\ in.extracted.additivesDisclosed[ADDITIVE_KEYS[k]] )

\* the product is imported and the extracted record has no country text
MissingImportCountry(in) ==
  in.expected.isImported /\ TextOf(in.extracted.countryOfOrigin) = << >>

\* C29: the list compareLabels returns has a result of its own with status
\* Fail for every additive that is expected and not disclosed, and one with
\* status Fail for an imported product without an extracted country text,
\* whatever the evaluation passed in.
C29_RuleFailuresAreReturned ==
  Compared =>
    /\ \A k \in 1..Len(ADDITIVE_KEYS) :
         UndisclosedAdditive(comparison.given, k) =>
           \E i \in 1..Len(comparison.results) :
             /\ comparison.results[i].field = "Rule: Additive Disclosure"
             /\ comparison.results[i].expected = << ADDITIVE_LABELS[k] >>
             /\ comparison.results[i].status = FAIL
    /\ MissingImportCountry(comparison.given) =>
         \E i \in 1..Len(comparison.results) :
           /\ comparison.results[i].field = "Rule: Import Country"
           /\ comparison.results[i].status = FAIL

(***************************************************************************)
(* Batch processing                                                        *)
(***************************************************************************)
\* the slice of CSV_PARALLEL_LIMIT consecutive files that file k belongs to
SliceOf(k) == (k - 1) \div CSV_PARALLEL_LIMIT

\* C26: while a batch run is under way at most CSV_PARALLEL_LIMIT requests
\* are in flight, and a request is in flight only when every request of the
\* slices before its own has settled.
C26_BoundedBatchedRequests ==
  batch.state = "running" =>
    /\ Cardinality(batch.flight) <= CSV_PARALLEL_LIMIT
    /\ \A k \in batch.flight : \A j \in 1..batch.total :
         SliceOf(j) < SliceOf(k) => j \in batch.settled

====
